---- MODULE Spec2Model ----
(***************************************************************************)
(* A model of the citation resolution and verification pipeline of the    *)
(* local-SEO repository: NAP verification (citation_audit_verify_nap.py), *)
(* URL verification (verify_url.py, api/index.py), the combined           *)
(* discover-and-verify variant (discover_and_verify_profile.py),         *)
(* directory discovery and validation (citation_audit_discovery.py),      *)
(* profile resolution (discover_profile_url.py), the page-fetching        *)
(* cascade scrape_content, and the citation-audit endpoints of            *)
(* api/index.py (discover, find-urls, verify-nap, refresh-directory,      *)
(* redo-single) acting on the rows of table citation_audits.              *)
(*                                                                         *)
(* Python strings are TLA+ strings; a character is a string of length 1.  *)
(* Python's None is the string PyNone, and a key that a returned dict     *)
(* does not hold is the string Absent.                                     *)
(***************************************************************************)
EXTENDS Integers, Sequences, FiniteSets, TLC

VARIABLES
    fuzzImpl,   \* which `fuzz` the import chain of verify_nap's module bound
    napIn,      \* the arguments of the last verify_nap call and what the scrape returned
    napOut,     \* the dict verify_nap returned, with its local scores
    vu,         \* a run of verify_url / verify_url_content: position, locals, result
    dp,         \* discover_and_verify_profile evaluating one candidate of its loop
    cv,         \* a call of clean_and_validate_directories: its loop and its locals
    dm,         \* a call of domain_matches_name: its arguments and its answer
    dd,         \* a call of discover_directories: position, locals, what it returned
    pu,         \* a call of discover_profile_url: position, searches issued, result
    sc,         \* a call of scrape_content: the tiers attempted so far, what it returned
    audits,     \* the rows of table citation_audits that belong to the audited project
    dc,         \* the discover requests in flight, one per client: position and locals
    fu,         \* a find-urls request: position, the batch it fetched, its response
    vn,         \* a verify-nap request: position, the rows it fetched, its response
    rf,         \* a refresh-directory request: position, locals, its response
    rs          \* a redo-single request: position, locals, its response

napVars == <<fuzzImpl, napIn, napOut>>
vuVars == <<vu>>
dpVars == <<dp>>
cvVars == <<cv>>
dmVars == <<dm>>
ddVars == <<dd>>
puVars == <<pu>>
scVars == <<sc>>
apiVars == <<audits, dc, fu, vn, rf, rs>>
libVars == <<napVars, vuVars, dpVars, cvVars, dmVars, ddVars, puVars, scVars>>
vars == <<fuzzImpl, napIn, napOut, vu, dp, cv, dm, dd, pu, sc, audits, dc, fu, vn, rf, rs>>

PyNone == "<None>"
Absent == "<absent>"
PyTrue == "True"
PyFalse == "False"
PyBool(b) == IF b THEN PyTrue ELSE PyFalse

Max(a, b) == IF a >= b THEN a ELSE b
Min(a, b) == IF a <= b THEN a ELSE b

(***************************************************************************)
(* Python string primitives.                                               *)
(***************************************************************************)
CharAt(s, i) == SubSeq(s, i, i)

\* `needle in hay`
Contains(hay, needle) ==
    \E i \in 0..(Len(hay) - Len(needle)) : SubSeq(hay, i + 1, i + Len(needle)) = needle

StartsWith(s, p) == Len(p) <= Len(s) /\ SubSeq(s, 1, Len(p)) = p
EndsWith(s, p) == Len(p) <= Len(s) /\ SubSeq(s, Len(s) - Len(p) + 1, Len(s)) = p

\* the lower-case letter of each capital letter, and the reverse
ToLower ==
    "A" :> "a" @@ "B" :> "b" @@ "C" :> "c" @@ "D" :> "d" @@ "E" :> "e" @@ "F" :> "f" @@ "G" :> "g" @@
    "H" :> "h" @@ "I" :> "i" @@ "J" :> "j" @@ "K" :> "k" @@ "L" :> "l" @@ "M" :> "m" @@ "N" :> "n" @@
    "O" :> "o" @@ "P" :> "p" @@ "Q" :> "q" @@ "R" :> "r" @@ "S" :> "s" @@ "T" :> "t" @@ "U" :> "u" @@
    "V" :> "v" @@ "W" :> "w" @@ "X" :> "x" @@ "Y" :> "y" @@ "Z" :> "z"
ToUpper ==
    "a" :> "A" @@ "b" :> "B" @@ "c" :> "C" @@ "d" :> "D" @@ "e" :> "E" @@ "f" :> "F" @@ "g" :> "G" @@
    "h" :> "H" @@ "i" :> "I" @@ "j" :> "J" @@ "k" :> "K" @@ "l" :> "L" @@ "m" :> "M" @@ "n" :> "N" @@
    "o" :> "O" @@ "p" :> "P" @@ "q" :> "Q" @@ "r" :> "R" @@ "s" :> "S" @@ "t" :> "T" @@ "u" :> "U" @@
    "v" :> "V" @@ "w" :> "W" @@ "x" :> "X" @@ "y" :> "Y" @@ "z" :> "Z"
DigitChars == {"0", "1", "2", "3", "4", "5", "6", "7", "8", "9"}

IsUpper(c) == c \in DOMAIN ToLower
IsLower(c) == c \in DOMAIN ToUpper
IsAlpha(c) == IsUpper(c) \/ IsLower(c)
IsDigit(c) == c \in DigitChars
IsSpace(c) == c \in {" ", "\t", "\n", "\r"}
\* \w of the re module, for the ASCII characters the model uses
IsWord(c) == IsAlpha(c) \/ IsDigit(c) \/ c = "_"

LowerChar(c) == IF IsUpper(c) THEN ToLower[c] ELSE c
UpperChar(c) == IF IsLower(c) THEN ToUpper[c] ELSE c

RECURSIVE Lower(_)
\* str.lower()
Lower(s) == IF s = "" THEN "" ELSE LowerChar(CharAt(s, 1)) \o Lower(SubSeq(s, 2, Len(s)))

RECURSIVE LStrip(_)
LStrip(s) == IF s # "" /\ IsSpace(CharAt(s, 1)) THEN LStrip(SubSeq(s, 2, Len(s))) ELSE s
RECURSIVE RStrip(_)
RStrip(s) == IF s # "" /\ IsSpace(CharAt(s, Len(s))) THEN RStrip(SubSeq(s, 1, Len(s) - 1)) ELSE s
\* str.strip()
Strip(s) == RStrip(LStrip(s))

RECURSIVE CollapseSpace(_)
\* re.sub(r'\s+', ' ', s)
CollapseSpace(s) ==
    IF s = "" THEN ""
    ELSE IF IsSpace(CharAt(s, 1))
         THEN " " \o CollapseSpace(LStrip(s))
         ELSE CharAt(s, 1) \o CollapseSpace(SubSeq(s, 2, Len(s)))

RECURSIVE OnlyDigits(_)
\* re.sub(r'\D', '', s)
OnlyDigits(s) ==
    IF s = "" THEN ""
    ELSE (IF IsDigit(CharAt(s, 1)) THEN CharAt(s, 1) ELSE "") \o OnlyDigits(SubSeq(s, 2, Len(s)))

RECURSIVE ReplaceAll(_, _, _)
\* s.replace(old, new), old non-empty
ReplaceAll(s, old, new) ==
    LET at == {i \in 1..(Len(s) - Len(old) + 1) : SubSeq(s, i, i + Len(old) - 1) = old}
    IN IF at = {} THEN s
       ELSE LET i == CHOOSE a \in at : \A b \in at : a <= b
            IN SubSeq(s, 1, i - 1) \o new
                   \o ReplaceAll(SubSeq(s, i + Len(old), Len(s)), old, new)

RECURSIVE TitleFrom(_, _)
TitleFrom(s, prevAlpha) ==
    IF s = "" THEN ""
    ELSE LET c == CharAt(s, 1)
         IN (IF prevAlpha THEN LowerChar(c) ELSE UpperChar(c))
            \o TitleFrom(SubSeq(s, 2, Len(s)), IsAlpha(c))
\* str.title()
Title(s) == TitleFrom(s, FALSE)

RECURSIVE TakeUntil(_, _)
\* the prefix of s before the first character of `stops`
TakeUntil(s, stops) ==
    IF s = "" \/ CharAt(s, 1) \in stops THEN ""
    ELSE CharAt(s, 1) \o TakeUntil(SubSeq(s, 2, Len(s)), stops)

\* Python truthiness of an optional string
Falsy(s) == s = PyNone \/ s = ""

(***************************************************************************)
(* urllib.parse.urlparse, as far as the scheme and the netloc.             *)
(***************************************************************************)
IsSchemeChar(c) == IsAlpha(c) \/ IsDigit(c) \/ c \in {"+", "-", "."}

\* the text after "<scheme>:", or the whole url when it carries no scheme
AfterScheme(url) ==
    LET head == TakeUntil(url, {":"})
    IN IF Len(head) < Len(url) /\ head # "" /\ IsAlpha(CharAt(head, 1))
          /\ \A i \in 1..Len(head) : IsSchemeChar(CharAt(head, i))
       THEN SubSeq(url, Len(head) + 2, Len(url))
       ELSE url

\* urlparse(url).netloc
Netloc(url) ==
    LET rest == AfterScheme(url)
    IN IF StartsWith(rest, "//")
       THEN TakeUntil(SubSeq(rest, 3, Len(rest)), {"/", "?", "#"})
       ELSE ""

\* urlsplit raises ValueError("Invalid IPv6 URL") on an unbalanced bracket
UrlParseRaises(url) ==
    LET n == Netloc(url)
    IN (Contains(n, "[") /\ ~Contains(n, "]")) \/ (Contains(n, "]") /\ ~Contains(n, "["))

(***************************************************************************)
(* Page content.  A fetched page is its leading text followed by `fill`    *)
(* further characters of markup that hold no whitespace, digit, capital    *)
(* letter or searched-for phrase (FillChar stands for each of them), so    *)
(* that pages of several thousand characters are compared by length        *)
(* against the program's thresholds without being spelled out.  The text   *)
(* of a page with fill > 0 does not end in whitespace.                     *)
(***************************************************************************)
FillChar == "~"
NoContent == [text |-> "", fill |-> 0]
PageLen(page) == Len(page.text) + page.fill
\* content.lower()
PageLower(page) == [text |-> Lower(page.text), fill |-> page.fill]
\* `needle in content`, for a needle that holds no FillChar
PageContains(page, needle) == Contains(page.text, needle)

RECURSIVE Filler(_)
Filler(n) == IF n <= 0 THEN "" ELSE FillChar \o Filler(n - 1)
\* the first characters of the page: its text and at most k characters of fill
PageHead(page, k) == page.text \o Filler(Min(page.fill, k))

(***************************************************************************)
(* scrape_content: the cascade of fetch strategies.  Each tier's response  *)
(* is what the network gave: ok = FALSE is an exception in that tier.      *)
(***************************************************************************)
CamoufoxMinLen == 500
CamoufoxShortLen == 5000
CloudscraperMinLen == 200
JinaMinLen == 100
max_retries == 2

CamoufoxIndicators == {"verify you are human", "access denied", "enable javascript and cookies"}
CloudscraperIndicators == {"verify you are human", "captcha", "access denied", "please wait"}
JinaIndicators == {"verify you are human", "just a moment"}

CamoufoxAccepts(r) ==
    /\ r.ok
    /\ PageLen(r.page) > CamoufoxMinLen
    /\ ~(/\ PageLen(r.page) < CamoufoxShortLen
         /\ \E ind \in CamoufoxIndicators : PageContains(PageLower(r.page), ind))

CloudscraperAccepts(r) ==
    /\ r.ok
    /\ r.status = 200
    /\ PageLen(r.page) > CloudscraperMinLen
    /\ ~\E ind \in CloudscraperIndicators : PageContains(PageLower(r.page), ind)

JinaAccepts(r) ==
    /\ r.ok
    /\ r.status = 200
    /\ PageLen(r.page) > JinaMinLen
    /\ ~\E ind \in JinaIndicators : PageContains(PageLower(r.page), ind)

\* jina is the sequence of the reader's responses, one per attempt
scrape_content(camoufox, cloudscraper, jina) ==
    IF CamoufoxAccepts(camoufox) THEN camoufox.page
    ELSE IF CloudscraperAccepts(cloudscraper) THEN cloudscraper.page
    ELSE IF \E a \in 1..max_retries : JinaAccepts(jina[a])
         THEN jina[CHOOSE a \in 1..max_retries :
                      JinaAccepts(jina[a]) /\ \A b \in 1..(a - 1) : ~JinaAccepts(jina[b])].page
         ELSE NoContent

(***************************************************************************)
(* The fuzzy matcher.  The module binds `fuzz` to the installed library    *)
(* (rapidfuzz, else fuzzywuzzy) or, with neither installed, to its own     *)
(* minimal class.  The library's partial_ratio is the best similarity      *)
(* 2*LCS/(len1+len2) of the shorter string against a window of the longer  *)
(* one, case-sensitive, here truncated to a whole percentage.              *)
(***************************************************************************)
FuzzImpls == {"library", "minimal"}

\* the characters of s, as a tuple
Chars(s) == SubSeq([i \in 1..Len(s) |-> CharAt(s, i)], 1, Len(s))

RECURSIVE LcsRowFrom(_, _, _, _, _)
\* one row of the longest-common-subsequence table, for character c of the first
\* string: cur[j] is the cell of column j - 1, the columns being the prefixes of b
LcsRowFrom(prev, c, b, j, cur) ==
    IF j > Len(b) \/ Len(cur) # j THEN cur
    ELSE LcsRowFrom(prev, c, b, j + 1,
             Append(cur, IF c = b[j] THEN prev[j] + 1 ELSE Max(prev[j + 1], cur[j])))

RECURSIVE LcsFrom(_, _, _, _)
LcsFrom(a, b, i, prev) ==
    IF i > Len(a) \/ Len(prev) # Len(b) + 1 THEN prev[Len(b) + 1]
    ELSE LcsFrom(a, b, i + 1, LcsRowFrom(prev, a[i], b, 1, <<0>>))

\* the length of a longest common subsequence of the character tuples a and b
Lcs(a, b) == LcsFrom(a, b, 1, SubSeq([j \in 1..(Len(b) + 1) |-> 0], 1, Len(b) + 1))

\* fuzz.ratio of the library, as a whole percentage, on character tuples
LibRatio(a, b) == IF Len(a) + Len(b) = 0 THEN 100 ELSE (200 * Lcs(a, b)) \div (Len(a) + Len(b))

\* the windows of `longer` that the shorter string of length m is aligned with
Windows(longer, m) ==
    {SubSeq(longer, i, i + m - 1) : i \in 1..(Len(longer) - m + 1)}
        \cup {SubSeq(longer, 1, k) : k \in 1..Min(m - 1, Len(longer))}
        \cup {SubSeq(longer, Len(longer) - k + 1, Len(longer)) : k \in 1..Min(m - 1, Len(longer))}

SetMax(S) == CHOOSE x \in S : \A y \in S : y <= x

\* fuzz.partial_ratio of the library
LibPartialRatio(s1, s2) ==
    IF s1 = "" \/ s2 = "" THEN 0
    ELSE LET shorter == Chars(IF Len(s1) <= Len(s2) THEN s1 ELSE s2)
             longer == Chars(IF Len(s1) <= Len(s2) THEN s2 ELSE s1)
         IN SetMax({LibRatio(shorter, w) : w \in Windows(longer, Len(shorter))})

\* fuzz.partial_ratio of the module's minimal fallback class; s2 is a page
MinimalPartialRatio(s1, s2) ==
    IF s1 = "" \/ PageLen(s2) = 0 THEN 0
    ELSE IF \/ PageContains(PageLower(s2), Lower(s1))
            \/ (s2.fill = 0 /\ Contains(Lower(s1), Lower(s2.text)))
         THEN 85
         ELSE 0

\* fuzz.partial_ratio(s1, s2) under the bound implementation; s2 is a page
partial_ratio(impl, s1, s2) ==
    IF impl = "minimal" THEN MinimalPartialRatio(s1, s2)
    ELSE LibPartialRatio(s1, PageHead(s2, Len(s1)))

(***************************************************************************)
(* verify_nap                                                              *)
(***************************************************************************)
normalize_text(text) == IF Falsy(text) THEN "" ELSE CollapseSpace(Strip(Lower(text)))

normalize_phone(phone) == IF Falsy(phone) THEN "" ELSE OnlyDigits(phone)

\* normalize_text(content) of a page
PageNormalize(page) == [text |-> normalize_text(page.text), fill |-> page.fill]

BlockMaxLen == 2000
MinPhoneDigits == 10
NameOkScore == 80
AddressOkScore == 60
PhoneFloor == 90

BLOCK_KEYWORDS == {"403 forbidden", "access denied", "you are blocked", "captcha required",
                   "verify you are human", "just a moment", "enable javascript"}

website_phrases ==
    {"visit website", "view website", "go to website", "website:",
     "visit site", "view site", "go to site", "official website",
     "click to visit", "click here to visit", "click to view",
     "visit their website", "view their website", "their website",
     "visit our website", "our website", "my website",
     "business website", "practice website", "clinic website", "office website",
     "company website", "doctor website", "dentist website",
     "www.", "http://", "https://",
     "homepage", "home page", "main site",
     "learn more at", "find us at", "see us at",
     "get directions", "contact us online", "book online",
     "schedule online", "request appointment", "online booking",
     "external link", "opens in new", "new window", "new tab",
     "[website]", "(website)", "web:", "url:",
     "visit now", "go now", "click here"}

is_blocked(content_norm) ==
    /\ \E k \in BLOCK_KEYWORDS : PageContains(content_norm, k)
    /\ PageLen(content_norm) < BlockMaxLen

\* variant: a phone must have more than ten digits to be checked
PhoneScore_Over10(phone, content) ==
    LET phone_norm == OnlyDigits(phone)
    IN IF ~Falsy(phone) /\ Len(phone_norm) > MinPhoneDigits
          /\ Contains(OnlyDigits(content.text), phone_norm)
       THEN 100 ELSE 0

\* phone_score of verify_nap
PhoneScore(phone, content) ==
    LET phone_norm == normalize_phone(phone)
    IN IF phone_norm # "" /\ Len(phone_norm) >= MinPhoneDigits
          /\ Contains(OnlyDigits(content.text), phone_norm)
       THEN 100 ELSE 0

\* name_score of verify_nap
NameScore(impl, business_name, content_norm) ==
    partial_ratio(impl, normalize_text(business_name), content_norm)

\* the address parts that count: `if not part: continue`
CountedParts(address_parts) == {i \in 1..Len(address_parts) : ~Falsy(address_parts[i])}
AddressHits(address_parts, content_norm) ==
    {i \in CountedParts(address_parts) :
        PageContains(content_norm, normalize_text(address_parts[i]))}

\* calc_address_score of verify_nap: int((hits / total) * 100)
AddressScore(address_parts, content_norm) ==
    LET total == Cardinality(CountedParts(address_parts))
        hits == Cardinality(AddressHits(address_parts, content_norm))
    IN IF total > 0 THEN (hits * 100) \div total ELSE 0

\* website_domain of verify_nap
WebsiteDomain(website_url) == ReplaceAll(Lower(Netloc(website_url)), "www.", "")

PhraseFound(content_norm) == \E phrase \in website_phrases : PageContains(content_norm, phrase)

\* variant: a website phrase counts when the domain is not on the page
WebsiteOk_Phrase(website_url, content_norm) ==
    IF Falsy(website_url) THEN PyNone
    ELSE IF UrlParseRaises(website_url) THEN PyNone
    ELSE LET website_domain == WebsiteDomain(website_url)
             domain_found == website_domain # "" /\ PageContains(content_norm, website_domain)
         IN IF domain_found \/ PhraseFound(content_norm) THEN PyTrue ELSE PyFalse

\* website_ok of verify_nap
WebsiteOk(website_url, content_norm) ==
    IF Falsy(website_url) THEN PyNone
    ELSE IF UrlParseRaises(website_url) THEN PyNone
    ELSE LET website_domain == WebsiteDomain(website_url)
             domain_found == website_domain # "" /\ PageContains(content_norm, website_domain)
         IN IF domain_found THEN PyTrue ELSE PyFalse

\* variant: no floor for a matched phone
Confidence_NoFloor(phone_score, name_score, calc_address_score) ==
    (5 * phone_score + 3 * name_score + 2 * calc_address_score) \div 10

\* variant: the address counts as all or nothing
Confidence_AllOrNothing(phone_score, name_score, calc_address_score) ==
    LET a == IF calc_address_score >= AddressOkScore THEN 100 ELSE 0
        final_score == (5 * phone_score + 3 * name_score + 2 * a) \div 10
    IN IF phone_score = 100 THEN Max(final_score, PhoneFloor) ELSE final_score

\* int(final_score)
Confidence(phone_score, name_score, calc_address_score) ==
    LET final_score == (5 * phone_score + 3 * name_score + 2 * calc_address_score) \div 10
    IN IF phone_score = 100 THEN Max(final_score, PhoneFloor) ELSE final_score

\* generate_detailed_description: the four lines, joined with " | ".  The marks
\* are written [v] (found), [!] (partial), [x] (not found) and [-] (not checked).
generate_detailed_description(phone_found, name_score, address_score, website_ok) ==
    (IF name_score >= 90 THEN "[v] Name: Found exactly"
     ELSE IF name_score >= 80 THEN "[v] Name: Partial match"
     ELSE IF name_score >= 70 THEN "[!] Name: Weak match"
     ELSE "[x] Name: Not found")
    \o " | " \o
    (IF address_score >= 80 THEN "[v] Address: Found"
     ELSE IF address_score >= 60 THEN "[!] Address: Partial"
     ELSE "[x] Address: Not found")
    \o " | " \o
    (IF phone_found THEN "[v] Phone: Verified" ELSE "[x] Phone: Not found")
    \o " | " \o
    (IF website_ok = PyTrue THEN "[v] Website: Link found"
     ELSE IF website_ok = PyFalse THEN "[x] Website: Not found"
     ELSE "[-] Website: Not checked")

\* a returned dict; `flags` are its four nap_*_ok keys and `locals` the call's
\* local values, which are not keys of the dict
NapResult(status, confidence, details, flags, locals) ==
    [status |-> status, confidence |-> confidence, details |-> details,
     nap_name_ok |-> flags[1], nap_address_ok |-> flags[2],
     nap_phone_ok |-> flags[3], nap_website_ok |-> flags[4],
     is_blocked |-> locals[1], phone_score |-> locals[2],
     name_score |-> locals[3], calc_address_score |-> locals[4]]

NoLocals == <<FALSE, 0, 0, 0>>

\* variant: the block page reported as a failed check rather than an unchecked one
BlockedResult_Failed(url) ==
    NapResult("not_found", 0, "Scraper blocked",
              <<PyFalse, PyFalse, PyFalse, PyFalse>>, <<TRUE, 0, 0, 0>>)

\* the dict returned for a block page: 'status': 'found'  # Keep as found - URL is valid
BlockedResult(url) ==
    NapResult("found", 0,
              "Scraper blocked by " \o Title(TakeUntil(Lower(Netloc(url)), {"."}))
                  \o ". NAP checks require manual verification.",
              <<PyNone, PyNone, PyNone, PyNone>>, <<TRUE, 0, 0, 0>>)

\* verify_nap, given what scrape_content returned for the url
verify_nap(impl, url, business_name, phone, address_parts, website_url, content) ==
    IF Falsy(url) \/ ~StartsWith(url, "http")
    THEN NapResult("not_found", 0, "Invalid URL", <<Absent, Absent, Absent, Absent>>, NoLocals)
    ELSE IF PageLen(content) = 0
    THEN NapResult("error", 0, "Could not scrape page",
                   <<Absent, Absent, Absent, PyNone>>, NoLocals)
    ELSE LET content_norm == PageNormalize(content)
         IN IF is_blocked(content_norm)
            THEN BlockedResult(url)
            ELSE LET phone_score == PhoneScore(phone, content)
                     name_score == NameScore(impl, business_name, content_norm)
                     calc_address_score == AddressScore(address_parts, content_norm)
                     website_ok == WebsiteOk(website_url, content_norm)
                 IN NapResult("found",
                              Confidence(phone_score, name_score, calc_address_score),
                              generate_detailed_description(phone_score = 100, name_score,
                                                            calc_address_score, website_ok),
                              <<PyBool(name_score >= NameOkScore),
                                PyBool(calc_address_score >= AddressOkScore),
                                PyBool(phone_score = 100),
                                website_ok>>,
                              <<FALSE, phone_score, name_score, calc_address_score>>)

(***************************************************************************)
(* The calls of verify_nap that the model makes.                           *)
(***************************************************************************)
PageListing == [text |-> "Ann Lee DDS (512) 555-0100 9 Elm St Austin 78701 annlee.com", fill |-> 3000]
PagePhrase == [text |-> "ann lee dental 1-512-555-0100 Austin visit our website", fill |-> 3000]
PageOtherArea == [text |-> "Ann  Lee (737) 555-0100 Austin", fill |-> 700]
PageDenied == [text |-> "Access Denied", fill |-> 300]
PageDeniedLong == [text |-> "Access Denied by policy. Ann Lee 512-555-0100", fill |-> 6000]
PageMoment == [text |-> "Just a moment...", fill |-> 600]
PageOther == [text |-> "Bob Roe Plumbing 1 Oak Av Dallas 75201", fill |-> 3000]
PageTiny == [text |-> "ok", fill |-> 0]
PageHuman == [text |-> "Verify you are human", fill |-> 300]

Pages == {PageListing, PagePhrase, PageOtherArea, PageDenied, PageDeniedLong, PageMoment,
          PageOther, PageTiny, PageHuman}

TierFails == [ok |-> FALSE, status |-> 0, page |-> NoContent]
\* what one tier can answer: an exception, a page with status 200, a refusal
TierResponses ==
    {TierFails}
        \cup {[ok |-> TRUE, status |-> 200, page |-> p] : p \in Pages}
        \cup {[ok |-> TRUE, status |-> 403, page |-> PageDenied]}

\* every content scrape_content can hand to verify_nap: a page that one tier accepts,
\* returned when the tiers before it fail, or no content
ScrapedContents ==
    {scrape_content(r, TierFails, <<TierFails, TierFails>>) : r \in TierResponses}
        \cup {scrape_content(TierFails, r, <<TierFails, TierFails>>) : r \in TierResponses}
        \cup {scrape_content(TierFails, TierFails, <<r, TierFails>>) : r \in TierResponses}
        \cup {scrape_content(TierFails, TierFails, <<TierFails, r>>) : r \in TierResponses}

NapNames == {"Ann Lee", "ANN LEE", "ann  lee ", "Dr. Ann Lee", "Ann Lee MD", "Bob Roe"}
NapPhones == {PyNone, "555-0100", "512-555-0100", "+1 (512) 555-0100"}
NapAddresses ==
    {<<>>, <<"9 Elm St", "Austin", "78701">>, <<"9 Elm St", PyNone, "78701">>,
     <<"1 Oak Av", "Austin", "78701">>}
NapWebsites == {PyNone, "https://www.annlee.com", "annlee.com", "http://[annlee.com"}

NapCall(url, business_name, phone, address_parts, website_url) ==
    [url |-> url, business_name |-> business_name, phone |-> phone,
     address_parts |-> address_parts, website_url |-> website_url]

\* the arguments of the calls: every combination on a profile url, and one call
\* each with a url that is missing or has no scheme
NapCalls ==
    {NapCall("https://www.yelp.com/biz/ann-lee", n, p, a, w) :
        n \in NapNames, p \in NapPhones, a \in NapAddresses, w \in NapWebsites}
        \cup {NapCall(u, "Ann Lee", "512-555-0100", <<"9 Elm St", "Austin", "78701">>, PyNone) :
                u \in {PyNone, "yelp.com/biz/ann-lee"}}

NapIdle ==
    [phase |-> "idle", args |-> NapCall("", "", "", <<>>, ""), content |-> NoContent]

NapInit ==
    /\ fuzzImpl \in FuzzImpls
    /\ napIn = NapIdle
    /\ napOut = NapResult("", 0, "", <<Absent, Absent, Absent, Absent>>, NoLocals)

\* verify_nap applied to a call's arguments
verify_nap_call(impl, args, content) ==
    verify_nap(impl, args.url, args.business_name, args.phone, args.address_parts,
               args.website_url, content)

\* a caller invokes verify_nap.  The function keeps no state between calls, so one
\* call from the idle state shows all.
NapRequest ==
    /\ napIn.phase = "idle"
    /\ \E args \in NapCalls : napIn' = [napIn EXCEPT !.phase = "called", !.args = args]
    /\ UNCHANGED <<fuzzImpl, napOut>>
    /\ UNCHANGED <<vuVars, dpVars, cvVars, dmVars, ddVars, puVars, scVars, apiVars>>

\* the body of verify_nap: the scrape of the url and the checks on what it returned
VerifyNapRun ==
    /\ napIn.phase = "called"
    /\ \E content \in ScrapedContents :
        /\ napIn' = [napIn EXCEPT !.phase = "returned", !.content = content]
        /\ napOut' = verify_nap_call(fuzzImpl, napIn.args, content)
    /\ UNCHANGED fuzzImpl
    /\ UNCHANGED <<vuVars, dpVars, cvVars, dmVars, ddVars, puVars, scVars, apiVars>>

NapNext == NapRequest \/ VerifyNapRun

(***************************************************************************)
(* Properties of verify_nap.                                               *)
(***************************************************************************)
NapReturned == napIn.phase = "returned"
\* the call passed the url check and the scrape returned content
NapFetched ==
    /\ NapReturned
    /\ ~Falsy(napIn.args.url) /\ StartsWith(napIn.args.url, "http")
    /\ PageLen(napIn.content) > 0
\* the fetched page is short and holds a block keyword
NapBlockPage == NapFetched /\ is_blocked(PageNormalize(napIn.content))
\* the call ran the four NAP checks
NapScored == NapFetched /\ ~is_blocked(PageNormalize(napIn.content))

\* C1: whenever verify_nap returns nap_phone_ok true, the confidence it returns is
\* at least 90, whatever the name and address scores.
C1_PhoneFloor == (NapReturned /\ napOut.nap_phone_ok = PyTrue) => napOut.confidence >= 90

\* a matched phone on a page where neither the name nor the address matched
C1_Witness ==
    /\ NapReturned /\ napOut.nap_phone_ok = PyTrue
    /\ napOut.nap_name_ok = PyFalse /\ napOut.nap_address_ok = PyFalse
    /\ 50 + (3 * napOut.name_score + 2 * napOut.calc_address_score) \div 10 < 90
    /\ napOut.confidence = 90

NapFlagsAllNone ==
    /\ napOut.nap_name_ok = PyNone /\ napOut.nap_address_ok = PyNone
    /\ napOut.nap_phone_ok = PyNone /\ napOut.nap_website_ok = PyNone

\* C2 as stated: on a block page verify_nap returns status 'blocked', confidence 0
\* and the four flags null.
C2_BlockedStatus ==
    NapBlockPage => (napOut.status = "blocked" /\ napOut.confidence = 0 /\ NapFlagsAllNone)

\* C2 amended: on a block page, and only there, verify_nap short-circuits with
\* status 'found', confidence 0 and the four flags null.
C2_BlockedKeepsFound ==
    /\ NapBlockPage => (napOut.status = "found" /\ napOut.confidence = 0 /\ NapFlagsAllNone)
    /\ NapScored => ~NapFlagsAllNone

C2_Witness ==
    /\ NapBlockPage /\ napOut.status = "found" /\ napOut.confidence = 0 /\ NapFlagsAllNone
    /\ StartsWith(napOut.details, "Scraper blocked by Www.")

BoolScore(flag) == IF flag = PyTrue THEN 100 ELSE 0
\* the integer part of 0.5*p + 0.3*n + 0.2*a, raised to 90 when the phone matched
Weighted(p, n, a) ==
    LET x == (50 * p + 30 * n + 20 * a) \div 100 IN IF p = 100 THEN Max(x, 90) ELSE x

\* the share of the non-empty address parts found in the page, as a whole percentage
HitPercent ==
    LET parts == napIn.args.address_parts
        page == normalize_text(napIn.content.text)
        counted == {i \in DOMAIN parts : parts[i] \notin {PyNone, ""}}
        found == {i \in counted : Contains(page, normalize_text(parts[i]))}
    IN IF counted = {} THEN 0 ELSE (100 * Cardinality(found)) \div Cardinality(counted)

\* C6 as stated: the confidence is the weighted sum with a boolean address score
\* (100 when nap_address_ok, else 0).
C6_BooleanAddress ==
    NapScored =>
        napOut.confidence = Weighted(BoolScore(napOut.nap_phone_ok), napOut.name_score,
                                     BoolScore(napOut.nap_address_ok))

\* C6 amended: the confidence is the integer part of 0.5*phoneScore + 0.3*nameScore
\* + 0.2*addressScore, raised to at least 90 when the phone matched, where the
\* address score is the percentage of the non-empty address parts found in the page.
C6_PercentAddress ==
    NapScored =>
        /\ napOut.confidence = Weighted(BoolScore(napOut.nap_phone_ok), napOut.name_score,
                                        HitPercent)
        /\ napOut.nap_address_ok = PyBool(HitPercent >= 60)
        /\ napOut.nap_name_ok = PyBool(napOut.name_score >= 80)

\* two of three address parts found: address_ok is true and the score is 66, not 100
C6_Witness ==
    /\ NapScored /\ HitPercent = 66 /\ napOut.nap_address_ok = PyTrue
    /\ napOut.nap_phone_ok = PyFalse
    /\ napOut.confidence # Weighted(0, napOut.name_score, 100)

PhoneDigits == IF Falsy(napIn.args.phone) THEN "" ELSE OnlyDigits(napIn.args.phone)
PhoneDigitsOnPage == Contains(OnlyDigits(napIn.content.text), PhoneDigits)

\* C7 as stated: nap_phone_ok is true exactly when the digits of the stored phone are
\* a contiguous substring of the digits of the page, for a phone of any digit length.
C7_AnyLength ==
    (NapScored /\ PhoneDigits # "") => (napOut.nap_phone_ok = PyTrue <=> PhoneDigitsOnPage)

\* C7 amended: nap_phone_ok is true exactly when the stored phone has at least 10
\* digits and they are a contiguous substring of the digits of the page.
C7_TenDigits ==
    NapScored =>
        (napOut.nap_phone_ok = PyTrue <=> (Len(PhoneDigits) >= 10 /\ PhoneDigitsOnPage))

\* a ten-digit phone found although the page formats it differently
C7_Witness ==
    /\ NapScored /\ napOut.nap_phone_ok = PyTrue /\ Len(PhoneDigits) = 10
    /\ ~Contains(napIn.content.text, napIn.args.phone)

SiteDomain == WebsiteDomain(napIn.args.website_url)
SiteDomainOnPage == SiteDomain # "" /\ Contains(normalize_text(napIn.content.text), SiteDomain)
SitePhraseOnPage ==
    \E phrase \in website_phrases : Contains(normalize_text(napIn.content.text), phrase)

\* C8 as stated (for a website url that parses): null without a website, true when
\* the domain is in the content, else true when a website phrase is, else false.
C8_PhraseCounts ==
    (NapScored /\ ~UrlParseRaises(napIn.args.website_url)) =>
        napOut.nap_website_ok =
            (IF Falsy(napIn.args.website_url) THEN PyNone
             ELSE IF SiteDomainOnPage \/ SitePhraseOnPage THEN PyTrue ELSE PyFalse)

\* C8 amended: nap_website_ok is null when no website was supplied or its url does
\* not parse; otherwise true when the url's host, lower-cased and without 'www.', is
\* non-empty and appears in the content; otherwise false, with or without a phrase.
C8_DomainOnly ==
    NapScored =>
        napOut.nap_website_ok =
            (IF Falsy(napIn.args.website_url) \/ UrlParseRaises(napIn.args.website_url)
             THEN PyNone
             ELSE IF SiteDomainOnPage THEN PyTrue ELSE PyFalse)

\* a website phrase on the page, the domain not on it: the flag is false
C8_Witness ==
    /\ NapScored /\ ~Falsy(napIn.args.website_url) /\ SiteDomain # ""
    /\ SitePhraseOnPage /\ ~SiteDomainOnPage
    /\ napOut.nap_website_ok = PyFalse

(***************************************************************************)
(* discover_profile_url.normalize_name: lower-case, drop a leading "dr",   *)
(* an optional "." and the spaces after it, drop a trailing credential,    *)
(* drop punctuation, strip.                                                *)
(***************************************************************************)
Credentials == {"md", "dds", "dmd", "do", "phd", "facs"}

\* re.sub(r'^dr\.?\s*', '', name)
StripDr(name) ==
    IF ~StartsWith(name, "dr") THEN name
    ELSE LET rest == SubSeq(name, 3, Len(name))
             noDot == IF StartsWith(rest, ".") THEN SubSeq(rest, 2, Len(rest)) ELSE rest
         IN LStrip(noDot)

\* re.sub(r'\s+(md|dds|dmd|do|phd|facs)\.?$', '', name)
StripCredential(name) ==
    LET body == IF EndsWith(name, ".") THEN SubSeq(name, 1, Len(name) - 1) ELSE name
        hits == {c \in Credentials :
                    /\ EndsWith(body, c)
                    /\ Len(body) > Len(c)
                    /\ IsSpace(CharAt(body, Len(body) - Len(c)))}
    IN IF hits = {} THEN name
       ELSE LET c == CHOOSE h \in hits : \A o \in hits : Len(h) >= Len(o)
            IN RStrip(SubSeq(body, 1, Len(body) - Len(c)))

RECURSIVE DropPunctuation(_)
\* re.sub(r'[^\w\s]', '', name)
DropPunctuation(s) ==
    IF s = "" THEN ""
    ELSE LET c == CharAt(s, 1)
         IN (IF IsWord(c) \/ IsSpace(c) THEN c ELSE "") \o DropPunctuation(SubSeq(s, 2, Len(s)))

normalize_name(name) ==
    IF Falsy(name) THEN "" ELSE Strip(DropPunctuation(StripCredential(StripDr(Lower(name)))))

\* two names that differ only in letter case, a leading "Dr." or a trailing credential
SameNameModuloTitle(a, b) == a # b /\ normalize_name(a) = normalize_name(b)

\* C9: the name score verify_nap computes is the same for two business names that
\* differ only in letter case, or only by a leading 'Dr.' prefix or a trailing
\* credential token.
C9_NameScoreInvariant ==
    NapScored =>
        \A other \in NapNames :
            SameNameModuloTitle(napIn.args.business_name, other) =>
                NameScore(fuzzImpl, other, PageNormalize(napIn.content)) = napOut.name_score

(***************************************************************************)
(* verify_url (execution/verify_url.py) and its copy verify_url_content    *)
(* (api/index.py).  A fetched document is a text preceded by `lead` inert  *)
(* characters, so that the 1000-character window of is_search_result_page  *)
(* can end before the text.                                                *)
(***************************************************************************)
RECURSIVE SplitOn(_, _)
\* the pieces of s between the characters of seps (empty pieces included)
SplitOn(s, seps) ==
    LET head == TakeUntil(s, seps)
    IN IF Len(head) = Len(s) THEN <<s>>
       ELSE <<head>> \o SplitOn(SubSeq(s, Len(head) + 2, Len(s)), seps)

\* str.split(): the non-empty pieces between runs of whitespace
Split(s) == SelectSeq(SplitOn(s, {" ", "\t", "\n", "\r"}), LAMBDA w : w # "")

SearchWindow == 1000

Doc(lead, text) == [lead |-> lead, text |-> text]
\* the first line of the document starts with the lead when there is one
DocLines(doc) == SplitOn(Lower(doc.text), {"\n"})
DocFirstLineIsText(doc) == doc.lead = 0

error_phrases ==
    {"page not found", "provider not found", "we couldn't find", "we could not find",
     "no results for", "doesn't exist", "does not exist", "error 404", "404 error",
     "page unavailable", "profile not found", "find a doctor - doctor reviews"}

search_indicators ==
    {"search results for", "results for", "find a doctor", "best doctors in", "top rated",
     "list of", "directory of", "matching results", "providers found"}

\* is_soft_404: the Jina metadata lines are dropped, then the phrases are looked up
is_soft_404(doc) ==
    LET lines == DocLines(doc)
        kept == {i \in 1..Len(lines) :
                    \/ (i = 1 /\ ~DocFirstLineIsText(doc))
                    \/ (~StartsWith(lines[i], "url source:") /\ ~StartsWith(lines[i], "title:"))}
    IN \E i \in kept : \E phrase \in error_phrases : Contains(lines[i], phrase)

\* is_search_result_page(content) with its default title "": content[:1000]
is_search_result_page(doc) ==
    LET room == Max(SearchWindow - doc.lead, 0)
        top == SubSeq(Lower(doc.text), 1, Min(room, Len(doc.text)))
    IN \E indicator \in search_indicators : Contains(top, indicator)

\* clean_req = required_text.lower().replace('dr.', '').replace('dr ', '').strip()
CleanReq(required_text) ==
    Strip(ReplaceAll(ReplaceAll(Lower(required_text), "dr.", ""), "dr ", ""))

\* all(part in content for part in name_parts if len(part) > 2)
AllPartsIn(name_parts, hay) ==
    \A i \in 1..Len(name_parts) : Len(name_parts[i]) > 2 => Contains(hay, name_parts[i])

\* the nested check_text of verify_url_content
check_text_content(doc, clean_req, name_parts) ==
    LET content == Lower(doc.text)
    IN Contains(content, clean_req) \/ AllPartsIn(name_parts, content)

\* check_text of verify_url.py
check_text(doc, clean_req, name_parts) ==
    IF is_soft_404(doc) THEN FALSE
    ELSE IF is_search_result_page(doc) THEN FALSE
    ELSE check_text_content(doc, clean_req, name_parts)

VuVariants == {"verify_url", "verify_url_content"}

CheckText(variant, doc, clean_req, name_parts) ==
    IF variant = "verify_url" THEN check_text(doc, clean_req, name_parts)
    ELSE check_text_content(doc, clean_req, name_parts)

\* step 3 of both functions: the name, or all its parts, in the url before '?'
SlugMatch(url, clean_req, name_parts) ==
    LET slug == TakeUntil(Lower(url), {"?"})
    IN IF Contains(slug, ReplaceAll(clean_req, " ", "-"))
          \/ Contains(slug, ReplaceAll(clean_req, " ", ""))
       THEN "slug_match"
       ELSE IF AllPartsIn(name_parts, slug) THEN "slug_parts_match"
       ELSE "no_match"

DeadStatuses == {404, 410}

\* the pre-check of verify_url: "dead" on 404/410, else on to Jina
PreCheckOutcome(resp) ==
    IF ~resp.raised /\ resp.status \in DeadStatuses THEN "dead" ELSE "continue"

\* the Jina step: verified, rejected (verify_url trusts a fetched page), or fall through
JinaOutcome(variant, resp, clean_req, name_parts) ==
    IF resp.raised \/ resp.status # 200 THEN "continue"
    ELSE IF CheckText(variant, resp.doc, clean_req, name_parts) THEN "verified"
    ELSE IF variant = "verify_url" THEN "rejected" ELSE "continue"

\* variant: a 404/410 answer of the direct request treated like any other failure
RequestsOutcome_NoDeadLink(variant, resp, clean_req, name_parts) ==
    IF resp.raised THEN "fallback"
    ELSE IF resp.status = 200
         THEN IF CheckText(variant, resp.doc, clean_req, name_parts)
              THEN "verified" ELSE "fallback"
    ELSE "fallback"

\* the direct request: verified, dead (404/410, returns at once), or
\* request_failed_but_not_404 = True
RequestsOutcome(variant, resp, clean_req, name_parts) ==
    IF resp.raised THEN "fallback"
    ELSE IF resp.status = 200
         THEN IF CheckText(variant, resp.doc, clean_req, name_parts)
              THEN "verified" ELSE "fallback"
    ELSE IF resp.status \in DeadStatuses THEN "dead"
    ELSE "fallback"

NoDoc == Doc(0, "")
Response(raised, status, doc) == [raised |-> raised, status |-> status, doc |-> doc]
NoResponse == Response(TRUE, 0, NoDoc)

VuIdle ==
    [pc |-> "idle", variant |-> "verify_url", url |-> "", required_text |-> "",
     pre |-> NoResponse, jina |-> NoResponse, req |-> NoResponse,
     request_failed_but_not_404 |-> FALSE, slug_applied |-> FALSE,
     verified |-> FALSE, how |-> ""]

VuInit == vu = VuIdle

DocProfile ==
    Doc(0, "Title: Ann Lee DDS\nURL Source: https://www.yelp.com/biz/ann-lee\nAnn Lee DDS, Austin")
DocOther == Doc(0, "Bob Roe Plumbing, Dallas")
DocSoft404 == Doc(0, "Title: Ann Lee\nPage not found. Ann Lee has moved")
DocTitle404 == Doc(0, "Title: Page Not Found\nAnn Lee DDS")
DocSearch == Doc(0, "Search results for Ann Lee")
DocDeepSearch == Doc(1200, "Top rated: Ann Lee DDS")
VuDocs == {DocProfile, DocOther, DocSoft404, DocTitle404, DocSearch, DocDeepSearch}

\* what a GET can come back with: an exception, a page, or a status without one
FailStatuses == {403, 404, 410, 503}
StatusResponses == {Response(TRUE, 0, NoDoc)} \cup {Response(FALSE, st, NoDoc) : st \in FailStatuses}
PageResponses == {Response(FALSE, 200, doc) : doc \in VuDocs}
PreResponses == StatusResponses \cup {Response(FALSE, 200, NoDoc)}
GetResponses == StatusResponses \cup PageResponses

VuUrls ==
    {"", "https://www.yelp.com/biz/ann-lee", "https://www.yelp.com/biz/AnnLee?x=1",
     "https://www.yelp.com/biz/lee-dds-ann", "https://www.yelp.com/biz/12345?q=ann-lee"}
VuTexts == {"", "Dr. Ann Lee", "Ann Lee"}

VuDone(verified, how) == [vu EXCEPT !.pc = "done", !.verified = verified, !.how = how]

\* entry of verify_url / verify_url_content: the "Missing input" return, else the
\* first request (the pre-check exists in verify_url only)
VuCall ==
    /\ vu.pc = "idle"
    /\ \E variant \in VuVariants, url \in VuUrls, required_text \in VuTexts :
        LET called == [vu EXCEPT !.variant = variant, !.url = url,
                                 !.required_text = required_text]
        IN vu' = IF Falsy(url) \/ Falsy(required_text)
                 THEN [called EXCEPT !.pc = "done", !.how = "Missing input"]
                 ELSE [called EXCEPT !.pc = IF variant = "verify_url"
                                            THEN "precheck" ELSE "jina"]
    /\ UNCHANGED <<napVars, dpVars, cvVars, dmVars, ddVars, puVars, scVars, apiVars>>

\* 0. Pre-check Status Code
VuPreCheck ==
    /\ vu.pc = "precheck"
    /\ \E resp \in PreResponses :
        vu' = IF PreCheckOutcome(resp) = "dead"
              THEN [VuDone(FALSE, "Dead Link (404/410)") EXCEPT !.pre = resp]
              ELSE [vu EXCEPT !.pc = "jina", !.pre = resp]
    /\ UNCHANGED <<napVars, dpVars, cvVars, dmVars, ddVars, puVars, scVars, apiVars>>

\* 1. Try Jina Reader
VuJina ==
    /\ vu.pc = "jina"
    /\ \E resp \in GetResponses :
        LET clean_req == CleanReq(vu.required_text)
            outcome == JinaOutcome(vu.variant, resp, clean_req, Split(clean_req))
        IN vu' = IF outcome = "verified" THEN [VuDone(TRUE, "jina") EXCEPT !.jina = resp]
                 ELSE IF outcome = "rejected"
                      THEN [VuDone(FALSE, "Text not found (Jina)") EXCEPT !.jina = resp]
                 ELSE [vu EXCEPT !.pc = "requests", !.jina = resp]
    /\ UNCHANGED <<napVars, dpVars, cvVars, dmVars, ddVars, puVars, scVars, apiVars>>

\* 2. Fallback to Requests/BS4
VuRequests ==
    /\ vu.pc = "requests"
    /\ \E resp \in GetResponses :
        LET clean_req == CleanReq(vu.required_text)
            outcome == RequestsOutcome(vu.variant, resp, clean_req, Split(clean_req))
        IN vu' = IF outcome = "verified" THEN [VuDone(TRUE, "requests") EXCEPT !.req = resp]
                 ELSE IF outcome = "dead"
                      THEN [VuDone(FALSE, "Dead Link (404/410)") EXCEPT !.req = resp]
                 ELSE [vu EXCEPT !.pc = "slug", !.req = resp,
                                 !.request_failed_but_not_404 = TRUE]
    /\ UNCHANGED <<napVars, dpVars, cvVars, dmVars, ddVars, puVars, scVars, apiVars>>

\* 3. Last Resort: Slug Match, then the final return
VuSlug ==
    /\ vu.pc = "slug"
    /\ LET clean_req == CleanReq(vu.required_text)
           match == SlugMatch(vu.url, clean_req, Split(clean_req))
       IN vu' = IF vu.request_failed_but_not_404
                THEN [(IF match # "no_match" THEN VuDone(TRUE, match)
                       ELSE VuDone(FALSE, "Verification failed"))
                      EXCEPT !.slug_applied = TRUE]
                ELSE VuDone(FALSE, "Verification failed")
    /\ UNCHANGED <<napVars, dpVars, cvVars, dmVars, ddVars, puVars, scVars, apiVars>>

VuNext == VuCall \/ VuPreCheck \/ VuJina \/ VuRequests \/ VuSlug

\* a direct request answered 404 or 410
DeadAnswer(resp) == ~resp.raised /\ resp.status \in {404, 410}
VuSlugHasName ==
    SlugMatch(vu.url, CleanReq(vu.required_text), Split(CleanReq(vu.required_text)))
        # "no_match"

\* C3: in verify_url and verify_url_content, as soon as a request to the url returns
\* 404 or 410 the run is over with the result 'not verified', and slug matching has not
\* been and is not applied, even when the slug contains the required name.
C3_DeadLinkTerminal ==
    (DeadAnswer(vu.pre) \/ DeadAnswer(vu.req)) =>
        (vu.pc = "done" /\ ~vu.verified /\ ~vu.slug_applied
         /\ vu.how = "Dead Link (404/410)")

\* the direct request of verify_url_content answers 410 for a url whose slug has the
\* name, after Jina fetched a page without it
C3_Witness ==
    /\ vu.variant = "verify_url_content" /\ vu.pc = "done"
    /\ DeadAnswer(vu.req) /\ vu.req.status = 410
    /\ ~vu.jina.raised /\ vu.jina.status = 200
    /\ VuSlugHasName /\ ~vu.verified

(***************************************************************************)
(* discover_and_verify_profile (execution/discover_and_verify_profile.py): *)
(* the evaluation of one search candidate, up to the name validation.      *)
(***************************************************************************)
SKIP_URL_PATTERNS ==
    {"/search", "/category", "/browse", "/listings", "/directory", "/find-a-",
     "/find-doctor", "/specialty/", "/articles/", "/topics/", "best-", "top-",
     "-near-me", "dentists-in-", "doctors-in-", "/all-", "/list-of-", "/index."}

IsSkippedUrl(url) == \E pat \in SKIP_URL_PATTERNS : Contains(Lower(url), pat)

DocEmpty(doc) == doc.lead = 0 /\ doc.text = ""
\* the body a response leaves in scrape_page's result: kept on status 200 only
KeptBody(resp) == IF ~resp.raised /\ resp.status = 200 THEN resp.doc ELSE NoDoc
\* scrape_page: {'html': ..., 'text': ...}; the status codes are not returned
scrape_page(jina_resp, direct_resp) ==
    [text |-> KeptBody(jina_resp), html |-> KeptBody(direct_resp)]

\* name_parts = [p for p in clean_name.split() if len(p) > 2]
SignificantParts(clean_name) == SelectSeq(Split(clean_name), LAMBDA w : Len(w) > 2)

\* Checks 1-3 of the loop body: where the name was found, or "none"
NameFoundVia(url, search_name, page_data) ==
    LET doc == IF ~DocEmpty(page_data.text) THEN page_data.text ELSE page_data.html
        page_content_lower == Lower(doc.text)
        clean_name == CleanReq(search_name)
        name_parts == SignificantParts(clean_name)
        slug == TakeUntil(Lower(url), {"?"})
    IN IF Contains(page_content_lower, clean_name) THEN "content"
       ELSE IF name_parts # <<>>
               /\ \A i \in 1..Len(name_parts) : Contains(page_content_lower, name_parts[i])
            THEN "content_parts"
       ELSE IF Contains(slug, ReplaceAll(clean_name, " ", "-"))
               \/ Contains(slug, ReplaceAll(clean_name, " ", ""))
            THEN "slug"
       ELSE IF \A i \in 1..Len(name_parts) : Contains(slug, name_parts[i])
            THEN "slug_parts"
       ELSE "none"

DpIdle ==
    [pc |-> "idle", url |-> "", search_name |-> "", jina |-> NoResponse,
     direct |-> NoResponse, page_data |-> scrape_page(NoResponse, NoResponse),
     name_via |-> "none", verdict |-> ""]

DpInit == dp = DpIdle

DpUrls == VuUrls \cup {"https://www.yelp.com/search?find_desc=ann-lee"}
DpNames == {"Dr. Ann Lee", "Ann Lee"}

\* the head of the loop body: an empty url and a category page are passed over
DpCandidate ==
    /\ dp.pc = "idle"
    /\ \E url \in DpUrls, search_name \in DpNames :
        LET taken == [dp EXCEPT !.url = url, !.search_name = search_name]
        IN dp' = IF url = "" THEN [taken EXCEPT !.pc = "next", !.verdict = "no url"]
                 ELSE IF IsSkippedUrl(url)
                      THEN [taken EXCEPT !.pc = "next", !.verdict = "Skipped (category page)"]
                 ELSE [taken EXCEPT !.pc = "jina"]
    /\ UNCHANGED <<napVars, vuVars, cvVars, dmVars, ddVars, puVars, scVars, apiVars>>

\* scrape_page, its request to the reader proxy
DpScrapeJina ==
    /\ dp.pc = "jina"
    /\ \E resp \in GetResponses : dp' = [dp EXCEPT !.pc = "direct", !.jina = resp]
    /\ UNCHANGED <<napVars, vuVars, cvVars, dmVars, ddVars, puVars, scVars, apiVars>>

\* scrape_page, its direct request, and the "Could not scrape" test on its result
DpScrapeDirect ==
    /\ dp.pc = "direct"
    /\ \E resp \in GetResponses :
        LET page_data == scrape_page(dp.jina, resp)
            scraped == [dp EXCEPT !.direct = resp, !.page_data = page_data]
        IN dp' = IF DocEmpty(page_data.html) /\ DocEmpty(page_data.text)
                 THEN [scraped EXCEPT !.pc = "next", !.verdict = "Could not scrape"]
                 ELSE [scraped EXCEPT !.pc = "validate"]
    /\ UNCHANGED <<napVars, vuVars, cvVars, dmVars, ddVars, puVars, scVars, apiVars>>

\* STRICT VALIDATION of the business name, with the slug-based fallback
DpValidateName ==
    /\ dp.pc = "validate"
    /\ LET via == NameFoundVia(dp.url, dp.search_name, dp.page_data)
       IN dp' = [dp EXCEPT !.name_via = via,
                           !.pc = IF via = "none" THEN "next" ELSE "extract",
                           !.verdict = IF via = "none" THEN "Business name not found"
                                       ELSE "name found"]
    /\ UNCHANGED <<napVars, vuVars, cvVars, dmVars, ddVars, puVars, scVars, apiVars>>

DpNext == DpCandidate \/ DpScrapeJina \/ DpScrapeDirect \/ DpValidateName

\* C4: a candidate whose direct fetch returned 404/410 is never treated as containing
\* the business name on the basis of its url slug, whatever the reader proxy returned.
C4_DeadLinkNoSlug ==
    (dp.pc \in {"next", "extract"} /\ DeadAnswer(dp.direct)) =>
        dp.name_via \notin {"slug", "slug_parts"}

(***************************************************************************)
(* clean_and_validate_directories and its helpers                          *)
(* (execution/citation_audit_discovery.py).                                *)
(***************************************************************************)
\* get_domain: the netloc, a leading "www." cut, then lower-cased; "" on an exception
get_domain(url) ==
    IF UrlParseRaises(url) THEN ""
    ELSE LET domain == Netloc(url)
         IN Lower(IF StartsWith(domain, "www.") THEN SubSeq(domain, 5, Len(domain))
                  ELSE domain)

StrippedTlds == <<".com", ".org", ".net", ".edu", ".gov", ".io", ".co", ".us", ".uk">>
stop_words ==
    {"the", "and", "or", "of", "for", "in", "a", "an", "at", "to", "by", "inc", "llc",
     "ltd", "com", "org", "net"}

\* the domain without the first tld of the list it ends with
StripTld(target_domain) ==
    LET hits == {i \in 1..Len(StrippedTlds) : EndsWith(target_domain, StrippedTlds[i])}
    IN IF hits = {} THEN target_domain
       ELSE LET i == CHOOSE h \in hits : \A o \in hits : h <= o
            IN SubSeq(target_domain, 1, Len(target_domain) - Len(StrippedTlds[i]))

RECURSIVE Acronym(_)
Acronym(words) ==
    IF words = <<>> THEN "" ELSE CharAt(Head(words), 1) \o Acronym(Tail(words))

\* variant: the acronym counts only as a whole token of the domain
domain_matches_name_TokenOnly(domain, name) ==
    IF Falsy(domain) \/ Falsy(name) THEN FALSE
    ELSE LET target_domain == StripTld(Lower(domain))
             words == Split(DropPunctuation(Lower(name)))
             significant_words == SelectSeq(words, LAMBDA w : w \notin stop_words)
             acronym == Acronym(significant_words)
             tokens == SplitOn(target_domain, {".", "-"})
             matches == Cardinality({i \in 1..Len(significant_words) :
                                        /\ Len(significant_words[i]) > 2
                                        /\ Contains(target_domain, significant_words[i])})
         IN IF /\ Len(significant_words) > 1
               /\ Len(acronym) >= 2
               /\ \E i \in 1..Len(tokens) : tokens[i] = acronym
            THEN TRUE
            ELSE IF Len(significant_words) <= 2 THEN matches >= 1 ELSE matches >= 2

domain_matches_name(domain, name) ==
    IF Falsy(domain) \/ Falsy(name) THEN FALSE
    ELSE LET target_domain == StripTld(Lower(domain))
             words == Split(DropPunctuation(Lower(name)))
             significant_words == SelectSeq(words, LAMBDA w : w \notin stop_words)
             acronym == Acronym(significant_words)
             tokens == SplitOn(target_domain, {".", "-"})
             matches == Cardinality({i \in 1..Len(significant_words) :
                                        /\ Len(significant_words[i]) > 2
                                        /\ Contains(target_domain, significant_words[i])})
         IN IF /\ Len(significant_words) > 1
               /\ Len(acronym) >= 2
               /\ \/ \E i \in 1..Len(tokens) : tokens[i] = acronym
                  \/ StartsWith(target_domain, acronym)
            THEN TRUE
            ELSE IF Len(significant_words) <= 2 THEN matches >= 1 ELSE matches >= 2

ReachableBelow == 400

\* verify_url_exists: HEAD, then GET when HEAD raised or answered 400 or more
verify_url_exists(head, get) ==
    IF ~head.raised /\ head.status < ReachableBelow THEN TRUE
    ELSE ~get.raised /\ get.status < ReachableBelow

\* the first search result whose domain matches the name, as "https://<domain>"
RECURSIVE FirstMatchingDomain(_, _)
FirstMatchingDomain(links, directory_name) ==
    IF links = <<>> THEN PyNone
    ELSE LET domain_str == get_domain(Head(links))
         IN IF domain_matches_name(domain_str, directory_name)
            THEN "https://" \o domain_str
            ELSE FirstMatchingDomain(Tail(links), directory_name)

\* search_correct_domain, given how the search went: the keys missing, the request
\* raising, an answer without 'items', or the items' links
search_correct_domain(directory_name, search) ==
    IF search.kind # "items" THEN PyNone
    ELSE FirstMatchingDomain(search.links, directory_name)

EXCLUDED_DIRECTORIES ==
    {"facebook", "facebook business", "facebook business pages", "google business profile",
     "google business", "google my business", "gbp", "caredash", "care dash"}

BAD_DOMAINS ==
    {"clutch.co", "clutchco.com.au", "sortlist.com", "goodfirms.co", "upcity.com",
     "yext.com", "brightlocal.com", "moz.com", "semrush.com", "ahrefs.com",
     "whitespark.ca", "localviking.com", "reddit.com", "quora.com", "localstack.cloud",
     "mojo.vision", "provenexpert.com", "trustpilot.com", "trustindex.io"}

KNOWN_DIRECTORIES ==
    {"healthgrades.com", "zocdoc.com", "vitals.com", "ratemds.com", "webmd.com",
     "yelp.com", "yellowpages.com", "bbb.org", "manta.com", "superpages.com",
     "findatopdoc.com", "castleconnolly.com", "sharecare.com", "wellness.com",
     "usnews.com", "superdoctors.com", "hotfrog.com", "brownbook.net", "cylex.us.com",
     "foursquare.com", "mapquest.com", "nextdoor.com", "angi.com", "thumbtack.com",
     "chamberofcommerce.com", "medifind.com", "dexknows.com", "n49.com",
     "threebestrated.com", "opencare.com", "topratedlocal.com"}

US_ONLY_DIRECTORIES ==
    {"mapquest.com", "angi.com", "thumbtack.com", "nextdoor.com", "homeadvisor.com",
     "angieslist.com", "superpages.com", "dexknows.com", "manta.com", "yellowpages.com",
     "whitepages.com", "citysearch.com", "local.com", "insiderpages.com", "kudzu.com",
     "merchantcircle.com"}

COMPETITOR_PATTERNS == {}

\* BAD_TLDS: "If target is NOT X, exclude X's TLDs", by substring tests on the country
BAD_TLDS(country) ==
    LET c_lower == Lower(country)
    IN (IF ~Contains(c_lower, "australia") THEN {".au", ".com.au"} ELSE {})
       \cup (IF ~Contains(c_lower, "united kingdom") /\ ~Contains(c_lower, "uk")
             THEN {".uk", ".co.uk"} ELSE {})
       \cup (IF ~Contains(c_lower, "canada") THEN {".ca"} ELSE {})
       \cup (IF ~Contains(c_lower, "germany") THEN {".de"} ELSE {})
       \cup (IF ~Contains(c_lower, "france") THEN {".fr"} ELSE {})
       \cup (IF ~Contains(c_lower, "india") THEN {".in", ".co.in"} ELSE {})

BAD_COUNTRY_TERMS(country) ==
    LET c_lower == Lower(country)
    IN (IF ~Contains(c_lower, "united states") /\ ~Contains(c_lower, "usa")
        THEN {"usa", "united states", "america", "american", "us"} ELSE {})
       \cup (IF ~Contains(c_lower, "united kingdom") /\ ~Contains(c_lower, "uk")
             THEN {"uk", "united kingdom", "britain", "british"} ELSE {})
       \cup (IF ~Contains(c_lower, "australia")
             THEN {"australia", "australian", "sydney", "melbourne"} ELSE {})
       \cup (IF ~Contains(c_lower, "canada") THEN {"canada", "canadian"} ELSE {})

RECURSIVE TokensFrom(_, _, _)
\* set(re.split(r'[^a-z0-9]', name_lower))
TokensFrom(s, i, cur) ==
    IF i > Len(s) THEN {cur}
    ELSE IF IsLower(CharAt(s, i)) \/ IsDigit(CharAt(s, i))
         THEN TokensFrom(s, i + 1, cur \o CharAt(s, i))
         ELSE {cur} \cup TokensFrom(s, i + 1, "")

\* "Skip international TLDs"
ForeignTldRule(url, country) ==
    \E tld \in BAD_TLDS(country) :
        EndsWith(Lower(url), tld) \/ Contains(Lower(url), tld \o "/")

\* the filters of the loop body, in their order: the reason a candidate is passed
\* over, or "" when it goes on to validation
FilterVerdict(name, url, country, seen) ==
    LET name_lower == Lower(name)
        domain == get_domain(url)
        c_lower == Lower(country)
        is_whitelisted == \E wd \in KNOWN_DIRECTORIES : Contains(domain, wd)
        is_competitor == \E cp \in COMPETITOR_PATTERNS : Contains(domain, cp)
    IN IF name = "" \/ url = "" THEN "empty"
       ELSE IF TokensFrom(name_lower, 1, "") \cap BAD_COUNTRY_TERMS(country) # {}
            THEN "wrong country directory"
       ELSE IF \E excl \in EXCLUDED_DIRECTORIES : Contains(name_lower, excl)
            THEN "excluded directory"
       ELSE IF is_competitor /\ ~is_whitelisted THEN "competitor site"
       ELSE IF \E bad \in BAD_DOMAINS : Contains(domain, bad) THEN "bad domain"
       ELSE IF /\ ~Contains(c_lower, "united states") /\ ~Contains(c_lower, "usa")
               /\ domain \in US_ONLY_DIRECTORIES
            THEN "US-only directory"
       ELSE IF ForeignTldRule(url, country) THEN "international domain"
       ELSE IF name_lower \in seen \/ domain \in seen THEN "duplicate in batch"
       ELSE ""

\* the filters that stand before the foreign-TLD rule let the candidate through
ReachesTldRule(verdict) == verdict \in {"", "international domain", "duplicate in batch"}

\* variant: a reachable url is kept whatever its domain
AcceptAsIs_Reachable(is_reachable, is_semantic_match) == is_reachable

\* `if is_reachable and is_semantic_match:`
AcceptAsIs(is_reachable, is_semantic_match) == is_reachable /\ is_semantic_match

\* "Ensure protocol"
EnsureProtocol(url) == IF StartsWith(url, "http") THEN url ELSE "https://" \o url

Directory(name, url) == [name |-> name, url |-> url]
\* an entry of the list that is not a dict (a string, a number, a key of a dict)
NotADict == Directory("<not a dict>", "<not a dict>")
\* `d.get('name', '').strip()` or `d.get('url', '').strip()` raises AttributeError
EntryRaises(d) == d = NotADict \/ d.name = PyNone \/ d.url = PyNone
Search(kind, links) == [kind |-> kind, links |-> links]
NoSearch == Search("none", <<>>)

CvCandidate(name, url) ==
    [name |-> name, url |-> url, verdict |-> "", tld_checked |-> FALSE,
     head |-> NoResponse, get |-> NoResponse, is_reachable |-> FALSE,
     is_semantic_match |-> FALSE, search |-> NoSearch]

CvIdle ==
    [pc |-> "idle", country |-> "", directories |-> <<>>, index |-> 0, queue |-> <<>>,
     cur |-> CvCandidate("", ""), seen |-> {}, cleaned |-> <<>>]

\* the function entered with its arguments: `cleaned = []`, `seen = set()`
CvEntered(directories, country) ==
    [CvIdle EXCEPT !.pc = "loop", !.country = country, !.directories = directories,
                   !.queue = directories]

CvInit == cv = CvIdle

CvCountries == {"United States", "Australia", "United Kingdom", "UK", "Ukraine"}

DirYelp == Directory("Yelp", "https://yelp.com")
DirAda == Directory("American Dental Association", "https://www.ada.org/")
DirAdaBlog == Directory("American Dental Association", "https://randomblog.com")
DirRemovalists == Directory("Best Removalists", "https://bestremovalists.com.au")
DirYell == Directory(" Yell", " https://www.yell.co.uk/ ")
DirFacebook == Directory("Facebook Business", "https://facebook.com/business")
DirUsa == Directory("USA Business Directory", "https://usabd.com")
DirYellowPages == Directory("Yellow Pages", "yellowpages.com")
DirClutch == Directory("Clutch", "https://clutch.co")
DirNoUrl == Directory("Hotfrog", "")
DirUnitedStates == Directory("United States Directory", "https://unitedstatesdirectory.com")
DirBritish == Directory("British Dental Guide", "https://britishdentalguide.com")
DirReddit == Directory("Reddit", "https://redit.com")
DirYelpBiz == Directory("Yelp for Business", "https://www.yelp.com/biz")
DirYelpDotCom == Directory("Yelp.com", "https://biz.yelp.com")
DirNullName == Directory(PyNone, "https://yelp.com")
DirTheAda == Directory("The ADA", "https://the-ada.net")

CvDirectories ==
    {DirYelp, DirAda, DirAdaBlog, DirRemovalists, DirYell, DirFacebook, DirUsa,
     DirYellowPages, DirClutch, DirNoUrl, DirUnitedStates, DirBritish, DirReddit}

\* the lists handed in: every single candidate, and pairs that meet in `seen`
CvDirectoryLists ==
    {<<d>> : d \in CvDirectories}
        \cup {<<DirAda, DirAdaBlog>>, <<DirAdaBlog, DirAda>>, <<DirYelp, DirYell>>,
              <<DirYellowPages, DirNoUrl>>, <<DirYelp, DirYelpBiz>>,
              <<DirYelp, DirYelpDotCom>>, <<DirFacebook, DirYelp>>,
              <<DirYelp, DirNullName>>, <<NotADict>>, <<DirAda, DirTheAda>>}

SearchLinks ==
    {"https://www.yelp.com/", "https://WWW.ADA.org/about", "https://randomblog.com/ada",
     "https://www.yell.com/", "https://www.yellowpages.com/", "https://bestremovalists.com.au/",
     "https://www.reddit.com/"}

SearchOutcomes ==
    {Search("keys missing", <<>>), Search("raised", <<>>), Search("no items", <<>>),
     Search("items", <<>>)}
        \cup {Search("items", <<l>>) : l \in SearchLinks}
        \cup {Search("items", <<"https://randomblog.com/ada", l>>) : l \in SearchLinks}

\* what HEAD and GET can answer; a url without a scheme makes requests raise
ProbeResponses(url) ==
    IF StartsWith(Lower(url), "http://") \/ StartsWith(Lower(url), "https://")
    THEN {Response(TRUE, 0, NoDoc)} \cup {Response(FALSE, st, NoDoc) : st \in {200, 301, 403, 404}}
    ELSE {Response(TRUE, 0, NoDoc)}

\* a call of clean_and_validate_directories(directories, country)
CvCall ==
    /\ cv.pc = "idle"
    /\ \E country \in CvCountries, directories \in CvDirectoryLists :
        cv' = CvEntered(directories, country)
    /\ UNCHANGED <<napVars, vuVars, dpVars, dmVars, ddVars, puVars, scVars, apiVars>>

\* the head of the loop body: strip, the exclusion filters, the dedupe; an entry
\* without string fields raises out of the function
CvFilter ==
    /\ cv.pc = "loop" /\ cv.queue # <<>>
    /\ LET d == Head(cv.queue)
           name == Strip(d.name)
           url == Strip(d.url)
           verdict == FilterVerdict(name, url, cv.country, cv.seen)
           cur == [CvCandidate(name, url) EXCEPT !.verdict = verdict,
                                                 !.tld_checked = ReachesTldRule(verdict)]
       IN cv' = IF EntryRaises(d)
                THEN [cv EXCEPT !.pc = "raised", !.index = cv.index + 1,
                                !.cur = CvCandidate("", "")]
                ELSE IF verdict # ""
                THEN [cv EXCEPT !.queue = Tail(cv.queue), !.index = cv.index + 1,
                                !.cur = cur]
                ELSE [cv EXCEPT !.pc = "validate", !.index = cv.index + 1, !.cur = cur,
                                !.seen = cv.seen \cup {Lower(name), get_domain(url)}]
    /\ UNCHANGED <<napVars, vuVars, dpVars, dmVars, ddVars, puVars, scVars, apiVars>>

\* 2. Validation Checks, and the accept-as-is branch
CvValidate ==
    /\ cv.pc = "validate"
    /\ \E head \in ProbeResponses(cv.cur.url), get \in ProbeResponses(cv.cur.url) :
        LET is_reachable == verify_url_exists(head, get)
            is_semantic_match == domain_matches_name(get_domain(cv.cur.url), cv.cur.name)
            cur == [cv.cur EXCEPT !.head = head, !.get = get,
                                  !.is_reachable = is_reachable,
                                  !.is_semantic_match = is_semantic_match]
        IN cv' = IF AcceptAsIs(is_reachable, is_semantic_match)
                 THEN [cv EXCEPT !.pc = "loop", !.queue = Tail(cv.queue),
                                 !.cur = [cur EXCEPT !.verdict = "validated"],
                                 !.cleaned = Append(cv.cleaned,
                                     Directory(Head(cv.queue).name, EnsureProtocol(cur.url)))]
                 ELSE [cv EXCEPT !.pc = "correct", !.cur = cur]
    /\ UNCHANGED <<napVars, vuVars, dpVars, dmVars, ddVars, puVars, scVars, apiVars>>

\* variant: a candidate that cannot be corrected is kept in the list
CvCorrect_KeepDiscarded ==
    /\ cv.pc = "correct"
    /\ \E search \in SearchOutcomes :
        LET corrected_url == search_correct_domain(cv.cur.name, search)
            cur == [cv.cur EXCEPT !.search = search]
        IN cv' = [cv EXCEPT !.pc = "loop", !.queue = Tail(cv.queue),
                            !.cur = [cur EXCEPT !.verdict = IF ~Falsy(corrected_url)
                                                            THEN "corrected" ELSE "discarded"],
                            !.cleaned = Append(cv.cleaned,
                                Directory(Head(cv.queue).name,
                                          IF ~Falsy(corrected_url) THEN corrected_url
                                          ELSE cv.cur.url))]
    /\ UNCHANGED <<napVars, vuVars, dpVars, dmVars, ddVars, puVars, scVars, apiVars>>

\* Failure case: Try correction
CvCorrect ==
    /\ cv.pc = "correct"
    /\ \E search \in SearchOutcomes :
        LET corrected_url == search_correct_domain(cv.cur.name, search)
            cur == [cv.cur EXCEPT !.search = search]
        IN cv' = IF ~Falsy(corrected_url)
                 THEN [cv EXCEPT !.pc = "loop", !.queue = Tail(cv.queue),
                                 !.cur = [cur EXCEPT !.verdict = "corrected"],
                                 !.cleaned = Append(cv.cleaned,
                                     Directory(Head(cv.queue).name, corrected_url))]
                 ELSE [cv EXCEPT !.pc = "loop", !.queue = Tail(cv.queue),
                                 !.cur = [cur EXCEPT !.verdict = "discarded"]]
    /\ UNCHANGED <<napVars, vuVars, dpVars, dmVars, ddVars, puVars, scVars, apiVars>>

\* return cleaned
CvReturn ==
    /\ cv.pc = "loop" /\ cv.queue = <<>>
    /\ cv' = [cv EXCEPT !.pc = "returned"]
    /\ UNCHANGED <<napVars, vuVars, dpVars, dmVars, ddVars, puVars, scVars, apiVars>>

CvNext == CvCall \/ CvFilter \/ CvValidate \/ CvCorrect \/ CvReturn

\* the loop has settled the candidate in cv.cur past the filters
CvDecided == cv.cur.verdict \in {"validated", "corrected", "discarded"}
\* the url the settled candidate carries in the output, or Absent
CvOutUrl ==
    IF cv.cur.verdict \in {"validated", "corrected"}
    THEN cv.cleaned[Len(cv.cleaned)].url ELSE Absent
\* a probe of the candidate's url was answered with a status below 400
CvReachable ==
    \/ (~cv.cur.head.raised /\ cv.cur.head.status < 400)
    \/ (~cv.cur.get.raised /\ cv.cur.get.status < 400)
\* the domain of `url` passes the domain-identity check for the candidate's name
CvPasses(url) == domain_matches_name(get_domain(url), cv.cur.name)

\* C5 as stated: a candidate comes back with its original url only if the url is
\* reachable and its domain passes the domain-identity check; a reachable candidate
\* that fails the check comes back only with a corrected url whose domain passes.
C5_OriginalOnlyIfValid ==
    CvDecided =>
        /\ CvOutUrl = cv.cur.url => (CvReachable /\ CvPasses(cv.cur.url))
        /\ (CvReachable /\ ~CvPasses(cv.cur.url)) =>
               (CvOutUrl = Absent \/ (CvOutUrl # cv.cur.url /\ CvPasses(CvOutUrl)))

\* C5 amended: a candidate keeps its url as given exactly when the url is reachable
\* and its domain passes the domain-identity check; any other candidate comes back
\* only with the search-corrected url "https://<domain>" of the first search result
\* whose domain passes the check for its name (for an unreachable candidate this can
\* be the url it came with), and is otherwise absent; a reachable candidate that
\* fails the check never keeps its url.
C5_AcceptOrCorrect ==
    CvDecided =>
        /\ IF CvReachable /\ CvPasses(cv.cur.url)
           THEN CvOutUrl = cv.cur.url /\ cv.cur.verdict = "validated"
           ELSE LET links == cv.cur.search.links
                    first == {i \in 1..Len(links) :
                                 /\ CvPasses(links[i])
                                 /\ \A j \in 1..(i - 1) : ~CvPasses(links[j])}
                IN IF cv.cur.search.kind = "items" /\ first # {}
                   THEN /\ \E i \in first : CvOutUrl = "https://" \o get_domain(links[i])
                        /\ CvPasses(CvOutUrl)
                   ELSE CvOutUrl = Absent
        /\ (CvReachable /\ ~CvPasses(cv.cur.url)) => CvOutUrl # cv.cur.url

\* a reachable candidate at a foreign domain comes back with the corrected url
C5_Witness ==
    /\ CvDecided /\ CvReachable /\ ~CvPasses(cv.cur.url)
    /\ cv.cur.verdict = "corrected"
    /\ CvOutUrl # cv.cur.url /\ CvPasses(CvOutUrl)
    /\ Len(cv.cur.search.links) = 2

\* the country each country TLD of the rule belongs to
TldOwner ==
    (".au" :> "Australia") @@ (".com.au" :> "Australia") @@ (".uk" :> "United Kingdom")
    @@ (".co.uk" :> "United Kingdom") @@ (".ca" :> "Canada") @@ (".de" :> "Germany")
    @@ (".fr" :> "France") @@ (".in" :> "India") @@ (".co.in" :> "India")
\* the country a target name stands for
TargetCountry(country) == IF country = "UK" THEN "United Kingdom" ELSE country
CarriesForeignTld ==
    \E tld \in DOMAIN TldOwner :
        /\ EndsWith(get_domain(cv.cur.url), tld)
        /\ TldOwner[tld] # TargetCountry(cv.country)

\* C10: a candidate that comes to the foreign-TLD rule is excluded by it if and only
\* if its url carries a country TLD of a country other than the target country.
C10_ForeignTldIff ==
    cv.cur.tld_checked => (cv.cur.verdict = "international domain" <=> CarriesForeignTld)

RECURSIVE WordsFrom(_, _, _)
\* the words of a text, in order: its maximal runs of letters and digits
WordsFrom(s, i, cur) ==
    IF i > Len(s) THEN (IF cur = "" THEN <<>> ELSE <<cur>>)
    ELSE IF IsAlpha(CharAt(s, i)) \/ IsDigit(CharAt(s, i))
         THEN WordsFrom(s, i + 1, cur \o CharAt(s, i))
         ELSE (IF cur = "" THEN <<>> ELSE <<cur>>) \o WordsFrom(s, i + 1, "")
\* the words of `term` stand next to each other, in order, among the words of `text`
HasTerm(text, term) ==
    LET ws == WordsFrom(Lower(text), 1, "")
        ts == WordsFrom(Lower(term), 1, "")
    IN \E k \in 0..(Len(ws) - Len(ts)) : SubSeq(ws, k + 1, k + Len(ts)) = ts
\* the jurisdiction each country term of the name rule refers to
TermOwner ==
    ("usa" :> "United States") @@ ("united states" :> "United States")
    @@ ("america" :> "United States") @@ ("american" :> "United States")
    @@ ("us" :> "United States") @@ ("uk" :> "United Kingdom")
    @@ ("united kingdom" :> "United Kingdom") @@ ("britain" :> "United Kingdom")
    @@ ("british" :> "United Kingdom") @@ ("australia" :> "Australia")
    @@ ("australian" :> "Australia") @@ ("sydney" :> "Australia")
    @@ ("melbourne" :> "Australia") @@ ("canada" :> "Canada") @@ ("canadian" :> "Canada")
\* the name holds a term of a jurisdiction other than the target country
NamesForeignJurisdiction(name, country) ==
    \E term \in DOMAIN TermOwner :
        HasTerm(name, term) /\ TermOwner[term] # TargetCountry(country)

\* C11: no directory in the output of clean_and_validate_directories has a name that
\* contains a term ('usa', 'united states', 'uk', 'british', ...) of a jurisdiction
\* other than the target country.
C11_NoForeignNames ==
    \A i \in 1..Len(cv.cleaned) : ~NamesForeignJurisdiction(cv.cleaned[i].name, cv.country)

\* C12: no directory in the output of clean_and_validate_directories has a url whose
\* domain is on the blocklist, be the url the original one or a corrected one.
C12_NoBlocklistedDomain ==
    \A i \in 1..Len(cv.cleaned) : get_domain(cv.cleaned[i].url) \notin BAD_DOMAINS

\* the candidate in cv.cur came through the exclusion filters to the dedupe
CvAtDedupe ==
    cv.cur.verdict \in {"", "duplicate in batch", "validated", "corrected", "discarded"}
       /\ cv.cur.name # ""
\* the base domain of a url: its netloc lower-cased, a leading 'www.' cut
BaseDomain(url) ==
    LET d == Lower(Netloc(url))
    IN IF StartsWith(d, "www.") THEN SubSeq(d, 5, Len(d)) ELSE d
\* the earlier entries of the batch that passed the exclusion filters
CvEarlierPassed ==
    {j \in 1..(cv.index - 1) :
        LET e == cv.directories[j]
        IN FilterVerdict(Strip(e.name), Strip(e.url), cv.country, {}) = ""}

\* C13: a candidate is skipped as a duplicate if and only if its lower-cased name is
\* the lower-cased name of an earlier candidate that passed the exclusion filters, or
\* its base domain is the base domain of such a candidate; names are compared with
\* names and domains with domains only.
C13_DuplicateIff ==
    CvAtDedupe =>
        (cv.cur.verdict = "duplicate in batch" <=>
            \E j \in CvEarlierPassed :
                LET e == cv.directories[j]
                IN \/ Lower(Strip(e.name)) = Lower(cv.cur.name)
                   \/ BaseDomain(Strip(e.url)) = BaseDomain(cv.cur.url))

\* C28: no two directories of the list that clean_and_validate_directories returns
\* have the same base domain, also when the url of one or both of them was replaced by
\* the search correction.
C28_UniqueBaseDomains ==
    cv.pc = "returned" =>
        \A i, j \in DOMAIN cv.cleaned :
            i # j => BaseDomain(cv.cleaned[i].url) # BaseDomain(cv.cleaned[j].url)

\* C24 as claimed: every candidate yields one record, so the list returned is as long
\* as the list handed in
C24_OneRecordEach == cv.pc = "returned" => Len(cv.cleaned) = Len(cv.directories)

\* the step ends the work on a candidate
CvCandidateDone == cv.pc \in {"loop", "validate", "correct"} /\ Len(cv'.queue) < Len(cv.queue)

\* C24: every candidate yields at most one record: a candidate that is validated or
\* corrected adds one record with its name to the list, and a candidate that is
\* filtered out, a duplicate, or discarded adds none, so the list returned is never
\* longer than the list handed in.
C24_RecordIffPassed ==
    /\ [](cv.pc = "returned" => Len(cv.cleaned) <= Len(cv.directories))
    /\ [][CvCandidateDone =>
            IF cv'.cur.verdict \in {"validated", "corrected"}
            THEN /\ Len(cv'.cleaned) = Len(cv.cleaned) + 1
                 /\ SubSeq(cv'.cleaned, 1, Len(cv.cleaned)) = cv.cleaned
                 /\ cv'.cleaned[Len(cv'.cleaned)].name = Head(cv.queue).name
            ELSE cv'.cleaned = cv.cleaned]_vars

\* a candidate failed validation, could not be corrected, and is not in the list
C24_Witness ==
    /\ cv.pc = "returned" /\ cv.cur.verdict = "discarded"
    /\ Len(cv.cleaned) < Len(cv.directories)
    /\ \A k \in DOMAIN cv.cleaned : cv.cleaned[k].name # cv.directories[cv.index].name


(***************************************************************************)
(* domain_matches_name, called on its own.                                 *)
(***************************************************************************)
DmIdle == [pc |-> "idle", domain |-> "", name |-> "", result |-> FALSE]
DmInit == dm = DmIdle

DmDomains ==
    {"ada.org", "ADA.org", "my-ada.org", "adamsdental.com", "randomblog.com",
     "dentalassociation.org", "dental.io", "health.usnews.com", "yelp.com",
     "yellowpages.com.au", "agd.org", ""}
DmNames ==
    {"American Dental Association", "The ADA", "Academy of General Dentistry", "Yelp",
     "Yellow Pages", "U.S. News & World Report", "Dental Association of America",
     "A B", ""}

\* domain_matches_name(domain, name)
DmCall ==
    /\ dm.pc = "idle"
    /\ \E domain \in DmDomains, name \in DmNames :
        dm' = [pc |-> "returned", domain |-> domain, name |-> name,
               result |-> domain_matches_name(domain, name)]
    /\ UNCHANGED <<napVars, vuVars, dpVars, cvVars, ddVars, puVars, scVars, apiVars>>

DmNext == DmCall

\* the name's words that are not stop words, punctuation dropped
DmSignificant == SelectSeq(Split(DropPunctuation(Lower(dm.name))), LAMBDA w : w \notin stop_words)
\* the initials of the significant words
DmAcronym == Acronym(DmSignificant)
\* the domain without its top-level domain
DmTarget == StripTld(Lower(dm.domain))
\* the acronym is one of the parts of the domain between '.' and '-'
DmAcronymIsToken ==
    /\ Len(DmAcronym) >= 2
    /\ \E i \in 1..Len(SplitOn(DmTarget, {".", "-"})) : SplitOn(DmTarget, {".", "-"})[i] = DmAcronym
\* the significant words longer than 2 that occur in the domain, with repetitions
DmHits ==
    Cardinality({i \in 1..Len(DmSignificant) :
                    Len(DmSignificant[i]) > 2 /\ Contains(DmTarget, DmSignificant[i])})
DmEnoughHits == IF Len(DmSignificant) <= 2 THEN DmHits >= 1 ELSE DmHits >= 2
DmAnswered == dm.pc = "returned" /\ dm.domain # "" /\ dm.name # ""

\* C15 as stated: domain_matches_name is true if and only if the acronym of the
\* significant words is a whole token of the TLD-stripped domain, or enough
\* significant words occur in the domain (1 for at most 2 significant words, else 2);
\* a domain that only begins with the acronym does not match by the acronym.
C15_TokenOrKeywords ==
    DmAnswered => (dm.result <=> (DmAcronymIsToken \/ DmEnoughHits))

\* C15 amended: for a non-empty domain and name, domain_matches_name is true if and
\* only if the name has at least 2 significant words whose acronym is a whole token of
\* the TLD-stripped domain or a prefix of it, or enough significant words longer than 2
\* occur in the domain (1 for at most 2 significant words, else 2); it is false for an
\* empty domain or name.  'ada.org' and 'adamsdental.com' match 'American Dental
\* Association', 'randomblog.com' does not.
C15_TokenPrefixOrKeywords ==
    dm.pc = "returned" =>
        /\ dm.result <=>
              /\ dm.domain # "" /\ dm.name # ""
              /\ \/ Len(DmSignificant) >= 2
                       /\ (DmAcronymIsToken \/ StartsWith(DmTarget, DmAcronym))
                 \/ DmEnoughHits
        /\ (dm.name = "American Dental Association" /\ dm.domain = "ada.org") => dm.result
        /\ (dm.name = "American Dental Association" /\ dm.domain = "randomblog.com")
              => ~dm.result

\* the domain begins with the acronym, has no such token and too few keyword hits
C15_Witness ==
    /\ dm.pc = "returned" /\ dm.result
    /\ dm.domain = "adamsdental.com" /\ dm.name = "American Dental Association"
    /\ ~DmAcronymIsToken /\ ~DmEnoughHits

(***************************************************************************)
(* scrape_content, tier by tier.                                           *)
(***************************************************************************)
\* whether a tier returns what it fetched
TierAccepts(tier, r) ==
    IF tier = "camoufox" THEN CamoufoxAccepts(r)
    ELSE IF tier = "cloudscraper" THEN CloudscraperAccepts(r)
    ELSE JinaAccepts(r)

\* variant: the cascade goes from the stealth browser straight to the reader
TierAfter_SkipCloudscraper(tier, attempt) ==
    IF tier = "camoufox" THEN "jina"
    ELSE IF tier = "cloudscraper" THEN "jina"
    ELSE IF attempt < max_retries THEN "jina" ELSE "none"

\* the tier tried after `tier` fell through; `attempt` counts the reader's attempts made
TierAfter(tier, attempt) ==
    IF tier = "camoufox" THEN "cloudscraper"
    ELSE IF tier = "cloudscraper" THEN "jina"
    ELSE IF attempt < max_retries THEN "jina" ELSE "none"

ScIdle ==
    [pc |-> "idle", tier |-> "none", attempt |-> 0, attempts |-> <<>>,
     responses |-> <<>>, content |-> NoContent]
ScInit == sc = ScIdle

\* scrape_content(url) is entered; the stealth browser comes first
ScCall ==
    /\ sc.pc = "idle"
    /\ sc' = [ScIdle EXCEPT !.pc = "fetch", !.tier = "camoufox"]
    /\ UNCHANGED <<napVars, vuVars, dpVars, cvVars, dmVars, ddVars, puVars, apiVars>>

\* one try block of the cascade: the tier answers r; the function returns the page
\* when the tier accepts it, goes on otherwise, and returns "" after the last attempt
ScAttempt ==
    /\ sc.pc = "fetch"
    /\ \E r \in TierResponses :
        LET attempt == IF sc.tier = "jina" THEN sc.attempt + 1 ELSE sc.attempt
            after == TierAfter(sc.tier, attempt)
            tried == [sc EXCEPT !.attempts = Append(sc.attempts, sc.tier),
                                !.responses = Append(sc.responses, r),
                                !.attempt = attempt]
        IN sc' = IF TierAccepts(sc.tier, r)
                 THEN [tried EXCEPT !.pc = "returned", !.content = r.page]
                 ELSE IF after = "none"
                 THEN [tried EXCEPT !.pc = "returned", !.content = NoContent]
                 ELSE [tried EXCEPT !.tier = after]
    /\ UNCHANGED <<napVars, vuVars, dpVars, cvVars, dmVars, ddVars, puVars, apiVars>>

ScNext == ScCall \/ ScAttempt

IsPrefix(a, b) == Len(a) <= Len(b) /\ SubSeq(b, 1, Len(a)) = a
\* an earlier attempt of the call was accepted
ScEarlierAccepted ==
    \E i \in 1..(Len(sc.attempts) - 1) : TierAccepts(sc.attempts[i], sc.responses[i])

\* C20 as stated: the strategies are attempted in the order stealth render, evasive
\* HTTP client, reader proxy, each at most once, and none after an accepted result.
C20_EachTierOnce ==
    /\ IsPrefix(sc.attempts, <<"camoufox", "cloudscraper", "jina">>)
    /\ ~ScEarlierAccepted

\* C20 amended: the strategies are attempted in the order stealth render, evasive HTTP
\* client, reader proxy; the first two at most once each and the reader proxy at most
\* max_retries (2) times in a row; no attempt follows an accepted result, and the
\* call returns the accepted page, or "" once every attempt was made and failed.
C20_OrderedCascade ==
    /\ IsPrefix(sc.attempts, <<"camoufox", "cloudscraper", "jina", "jina">>)
    /\ Len(sc.responses) = Len(sc.attempts)
    /\ ~ScEarlierAccepted
    /\ sc.pc = "returned" =>
          LET n == Len(sc.attempts)
          IN IF TierAccepts(sc.attempts[n], sc.responses[n])
             THEN sc.content = sc.responses[n].page
             ELSE sc.content = NoContent /\ n = 2 + max_retries
    /\ sc.pc = "returned" =>
          sc.content = scrape_content(
              IF Len(sc.responses) >= 1 THEN sc.responses[1] ELSE TierFails,
              IF Len(sc.responses) >= 2 THEN sc.responses[2] ELSE TierFails,
              <<IF Len(sc.responses) >= 3 THEN sc.responses[3] ELSE TierFails,
                IF Len(sc.responses) >= 4 THEN sc.responses[4] ELSE TierFails>>)

\* the reader proxy is asked a second time, and its second answer is returned
C20_Witness ==
    /\ sc.pc = "returned"
    /\ sc.attempts = <<"camoufox", "cloudscraper", "jina", "jina">>
    /\ sc.content # NoContent

\* the tier fetched a page of more than its minimum length (and, for the two HTTP
\* tiers, with status 200): what is left to decide is whether it is a block page
ScFetched(tier, r) ==
    /\ r.ok
    /\ IF tier = "camoufox" THEN PageLen(r.page) > CamoufoxMinLen
       ELSE IF tier = "cloudscraper"
            THEN r.status = 200 /\ PageLen(r.page) > CloudscraperMinLen
       ELSE r.status = 200 /\ PageLen(r.page) > JinaMinLen
\* the page is short: below the length under which a block phrase counts
ScShort(r) == PageLen(r.page) < CamoufoxShortLen
\* the page holds one of the block phrases of any tier
ScHasBlockPhrase(r) ==
    \E ind \in CamoufoxIndicators \cup CloudscraperIndicators \cup JinaIndicators :
        PageContains(PageLower(r.page), ind)

\* C21: in every tier a fetched page is rejected as a soft block only when it holds a
\* block phrase and is short; a long page that holds a block phrase is accepted by the
\* tier that fetched it.
C21_LongPageAccepted ==
    \A i \in 1..Len(sc.attempts) :
        (ScFetched(sc.attempts[i], sc.responses[i]) /\ ~TierAccepts(sc.attempts[i], sc.responses[i]))
            => (ScHasBlockPhrase(sc.responses[i]) /\ ScShort(sc.responses[i]))

(***************************************************************************)
(* discover_profile_url (execution/discover_profile_url.py).               *)
(***************************************************************************)
RECURSIVE Join(_, _)
\* sep.join(parts)
Join(parts, sep) ==
    IF parts = <<>> THEN ""
    ELSE IF Len(parts) = 1 THEN parts[1]
    ELSE parts[1] \o sep \o Join(Tail(parts), sep)

\* the first k elements of a list: parts[:k]
Take(parts, k) == SubSeq(parts, 1, Min(k, Len(parts)))

\* name_in_text: the whole normalised name, or its first two or three parts of more
\* than 2 characters side by side, or its only such part as a word of the text
name_in_text(name, text) ==
    IF Falsy(name) \/ Falsy(text) THEN FALSE
    ELSE LET name_norm == normalize_name(name)
             text_lower == Lower(text)
             parts == SelectSeq(Split(name_norm), LAMBDA q : Len(q) > 2)
             words == Split(text_lower)
         IN \/ Contains(text_lower, name_norm)
            \/ Len(parts) >= 2 /\ Contains(text_lower, Join(Take(parts, 2), " "))
            \/ Len(parts) >= 3 /\ Contains(text_lower, Join(Take(parts, 3), " "))
            \/ Len(parts) = 1 /\ \E i \in 1..Len(words) : words[i] = parts[1]

skip_domains ==
    {"google.com", "business.google.com", "google.com/maps", "facebook.com", "caredash.com"}

domain_corrections ==
    <<<<"american dental association", "ada.org">>, <<"ada find-a-dentist", "ada.org">>,
      <<"academy of general dentistry", "agd.org">>,
      <<"american academy of cosmetic dentistry", "aacd.com">>,
      <<"american academy of implant dentistry", "aaid.com">>,
      <<"better business bureau", "bbb.org">>>>

\* the domain after the known corrections: that of the first keyword the lower-cased
\* directory name holds
CorrectedDomain(directory_name, directory_domain) ==
    LET hits == {i \in 1..Len(domain_corrections) :
                    Contains(Lower(directory_name), domain_corrections[i][1])}
    IN IF hits = {} THEN directory_domain
       ELSE domain_corrections[CHOOSE h \in hits : \A o \in hits : h <= o][2]

UsNames == {"united states", "usa", "us", "united states of america"}
is_us(country) == Falsy(country) \/ Strip(Lower(country)) \in UsNames
location_term(city, state, country) ==
    IF is_us(country) THEN city \o " " \o state ELSE country

\* the first query: site, quoted name, location, runs of whitespace made one space
SearchQuery(domain, search_name, location) ==
    Join(Split("site:" \o domain \o " \"" \o search_name \o "\" " \o location), " ")
\* the query of the retry
FallbackQuery(domain, search_name) == "site:" \o domain \o " \"" \o search_name \o "\""

\* variant: the retry is made whatever the first search returned
NeedsFallback_Always(results, location) == TRUE
\* `if not results and location_term:`
NeedsFallback(results, location) == results = <<>> /\ ~Falsy(location)

list_patterns == {"/top-", "/best-", "/list", "/find-", "-near-", "-in-"}
SlugStopWords == {"the", "and", "of"}

\* the name's first two slug parts, joined by '-', are in the url
SlugInUrl(business_name, url) ==
    LET name_parts == SelectSeq(Split(normalize_name(business_name)),
                                LAMBDA q : Len(q) > 2 /\ q \notin SlugStopWords)
    IN Len(name_parts) >= 2 /\ Contains(Lower(url), Join(Take(name_parts, 2), "-"))
IsListUrl(url) == \E q \in list_patterns : Contains(Lower(url), q)
NameInTitleOrSnippet(business_name, r) ==
    name_in_text(business_name, r.title) \/ name_in_text(business_name, r.snippet)

\* the body of the categorising loop for one result: the list it is appended to
Categorise(r, business_name, doctor_name) ==
    LET is_list == IsListUrl(r.url)
        is_profile == \/ SlugInUrl(business_name, r.url)
                      \/ name_in_text(business_name, r.title)
                      \/ (is_list /\ NameInTitleOrSnippet(business_name, r))
        is_doctor == /\ ~Falsy(doctor_name)
                     /\ \/ name_in_text(doctor_name, r.title)
                        \/ name_in_text(doctor_name, r.snippet)
    IN IF is_profile THEN "profile_match"
       ELSE IF is_doctor THEN "doctor_match"
       ELSE IF is_list /\ NameInTitleOrSnippet(business_name, r) THEN "list_match"
       ELSE "none"

Result(url, title, snippet) == [url |-> url, title |-> title, snippet |-> snippet]
Outcome(status, url, title, match_reason, candidates) ==
    [status |-> status, url |-> url, title |-> title, match_reason |-> match_reason,
     candidates |-> candidates]
NoOutcome == Outcome("", "", "", "", <<>>)

\* variant: the doctor's page goes before the profile page
BestMatch_DoctorFirst(profile_matches, doctor_matches, list_matches) ==
    LET all_candidates == profile_matches \o doctor_matches \o list_matches
        Found(best, reason) == Outcome("found", best.url, best.title, reason, all_candidates)
    IN IF doctor_matches # <<>> THEN Found(doctor_matches[1], "doctor_match")
       ELSE IF profile_matches # <<>> THEN Found(profile_matches[1], "profile_match")
       ELSE IF list_matches # <<>> THEN Found(list_matches[1], "list_match")
       ELSE NoOutcome

\* "Return best match by priority"; NoOutcome when the three lists are empty
BestMatch(profile_matches, doctor_matches, list_matches) ==
    LET all_candidates == profile_matches \o doctor_matches \o list_matches
        Found(best, reason) == Outcome("found", best.url, best.title, reason, all_candidates)
    IN IF profile_matches # <<>> THEN Found(profile_matches[1], "profile_match")
       ELSE IF doctor_matches # <<>> THEN Found(doctor_matches[1], "doctor_match")
       ELSE IF list_matches # <<>> THEN Found(list_matches[1], "list_match")
       ELSE NoOutcome

\* variant: the answer the statements after the return would give when they all fail
Uncertain_AfterFallbacks(results) == Outcome("not_found", "", "", "no_validated_results", <<>>)
\* "UNCERTAIN RESULTS": the return that ends the function when no list has an entry
Uncertain(results) == Outcome("not_found", "", "", "uncertain_results", results)

PuArgs(directory_name, directory_domain, business_name, doctor_name, city, state, country) ==
    [directory_name |-> directory_name, directory_domain |-> directory_domain,
     business_name |-> business_name, doctor_name |-> doctor_name, city |-> city,
     state |-> state, country |-> country]

PuIdle ==
    [pc |-> "idle", args |-> PuArgs("", "", "", "", "", "", ""), directory_domain |-> "",
     search_name |-> "", location_term |-> "", queries |-> <<>>, first |-> <<>>,
     results |-> <<>>, i |-> 0, profile_matches |-> <<>>, doctor_matches |-> <<>>,
     list_matches |-> <<>>, out |-> NoOutcome]
PuInit == pu = PuIdle

PuCalls ==
    {PuArgs("Yelp", "yelp.com", "Ann Lee Dental", d, "Austin", "TX", c) :
        d \in {"", "Dr. Bob Roe"}, c \in {"", "Australia"}}
        \cup {PuArgs("Yelp", "yelp.com", "Ann  Lee Dental", "", "", "", " "),
              PuArgs("Facebook", "facebook.com", "Ann Lee Dental", "", "Austin", "TX", ""),
              PuArgs("American Dental Association (ADA)", "1800dentist.com",
                     "Ann Lee Dental", "Dr. Bob Roe", "Austin", "", "USA")}

RProfile ==
    Result("https://www.yelp.com/biz/ann-lee-dental-austin", "Ann Lee Dental - Austin",
           "Family dentist in Austin, TX")
RTitleOnly ==
    Result("https://www.yelp.com/biz/4711", "ANN LEE DENTAL | Yelp", "Reviews and hours")
RDoctor ==
    Result("https://www.yelp.com/biz/roe-clinic", "Dr. Bob Roe, DDS", "Bob Roe sees patients")
RListNamed ==
    Result("https://www.yelp.com/search/best-dentists-in-austin", "Top 10 Dentists in Austin",
           "1. Smile Co 2. Ann Lee Dental 3. Oak Dental")
RListBare ==
    Result("https://www.yelp.com/c/top-dentists", "Top 10 Dentists", "Smile Co, Oak Dental")
RListDoctor ==
    Result("https://www.yelp.com/find-a-dentist/austin", "Find a dentist", "Dr. Bob Roe, Austin")
ROther == Result("https://www.yelp.com/biz/roe-plumbing", "Roe Plumbing", "Pipes and drains")

PuResults == {RProfile, RTitleOnly, RDoctor, RListNamed, RListBare, RListDoctor, ROther}
\* what search_serper can return: no result, one, or two
PuResultLists ==
    {<<>>} \cup {<<r>> : r \in PuResults} \cup {<<r, q>> : r, q \in PuResults}

\* discover_profile_url(...) up to the first search: the skip list, the known
\* corrections, the query
PuCall ==
    /\ pu.pc = "idle"
    /\ \E a \in PuCalls :
        LET domain == CorrectedDomain(a.directory_name, a.directory_domain)
            search_name == IF ~Falsy(a.doctor_name) THEN a.doctor_name ELSE a.business_name
            location == location_term(a.city, a.state, a.country)
        IN pu' = IF a.directory_domain \in skip_domains
                 THEN [PuIdle EXCEPT !.pc = "returned", !.args = a,
                           !.directory_domain = a.directory_domain,
                           !.out = Outcome("not_searchable", "", "", "gbp_not_searchable", <<>>)]
                 ELSE [PuIdle EXCEPT !.pc = "search", !.args = a,
                           !.directory_domain = domain, !.search_name = search_name,
                           !.location_term = location]
    /\ UNCHANGED <<napVars, vuVars, dpVars, cvVars, dmVars, ddVars, scVars, apiVars>>

\* `results = search_serper(query, gl=gl_param)`
PuSearch ==
    /\ pu.pc = "search"
    /\ \E results \in PuResultLists :
        pu' = [pu EXCEPT
                 !.queries = <<SearchQuery(pu.directory_domain, pu.search_name, pu.location_term)>>,
                 !.first = results, !.results = results,
                 !.pc = IF NeedsFallback(results, pu.location_term) THEN "fallback"
                        ELSE "searched"]
    /\ UNCHANGED <<napVars, vuVars, dpVars, cvVars, dmVars, ddVars, scVars, apiVars>>

\* `results = search_serper(fallback_query, gl=gl_param)`
PuFallback ==
    /\ pu.pc = "fallback"
    /\ \E results \in PuResultLists :
        pu' = [pu EXCEPT
                 !.queries = Append(pu.queries, FallbackQuery(pu.directory_domain, pu.search_name)),
                 !.results = results, !.pc = "searched"]
    /\ UNCHANGED <<napVars, vuVars, dpVars, cvVars, dmVars, ddVars, scVars, apiVars>>

\* `if not results:` returns no_results; else the categorising loop starts
PuNoResults ==
    /\ pu.pc = "searched"
    /\ pu' = IF pu.results = <<>>
             THEN [pu EXCEPT !.pc = "returned",
                             !.out = Outcome("not_found", "", "", "no_results", <<>>)]
             ELSE [pu EXCEPT !.pc = "categorise", !.i = 1]
    /\ UNCHANGED <<napVars, vuVars, dpVars, cvVars, dmVars, ddVars, scVars, apiVars>>

\* one turn of `for result in results:`
PuCategorise ==
    /\ pu.pc = "categorise" /\ pu.i <= Len(pu.results)
    /\ LET r == pu.results[pu.i]
           class == Categorise(r, pu.args.business_name, pu.args.doctor_name)
       IN pu' = [pu EXCEPT
                   !.i = pu.i + 1,
                   !.profile_matches = IF class = "profile_match" THEN Append(@, r) ELSE @,
                   !.doctor_matches = IF class = "doctor_match" THEN Append(@, r) ELSE @,
                   !.list_matches = IF class = "list_match" THEN Append(@, r) ELSE @]
    /\ UNCHANGED <<napVars, vuVars, dpVars, cvVars, dmVars, ddVars, scVars, apiVars>>

\* the returns after the loop: the best match, or the uncertain results
PuReturn ==
    /\ pu.pc = "categorise" /\ pu.i > Len(pu.results)
    /\ LET best == BestMatch(pu.profile_matches, pu.doctor_matches, pu.list_matches)
       IN pu' = [pu EXCEPT !.pc = "returned",
                           !.out = IF best # NoOutcome THEN best ELSE Uncertain(pu.results)]
    /\ UNCHANGED <<napVars, vuVars, dpVars, cvVars, dmVars, ddVars, scVars, apiVars>>

PuNext == PuCall \/ PuSearch \/ PuFallback \/ PuNoResults \/ PuCategorise \/ PuReturn

\* the class the loop gives the i-th search result
PuClass(i) == Categorise(pu.results[i], pu.args.business_name, pu.args.doctor_name)
\* the first result of a class, if any
PuFirst(class) ==
    {i \in 1..Len(pu.results) :
        PuClass(i) = class /\ \A j \in 1..(i - 1) : PuClass(j) # class}
PuReturnedWithResults == pu.pc = "returned" /\ pu.results # <<>>
PuFound(i, reason) ==
    /\ pu.out.status = "found" /\ pu.out.match_reason = reason
    /\ pu.out.url = pu.results[i].url /\ pu.out.title = pu.results[i].title

\* C16: when search results exist, discover_profile_url returns the first result
\* classified profile_match if there is one, else the first doctor_match, else the
\* first list_match, wherever in the results the classes stand.
C16_PriorityOrder ==
    PuReturnedWithResults =>
        IF PuFirst("profile_match") # {} THEN \E i \in PuFirst("profile_match") : PuFound(i, "profile_match")
        ELSE IF PuFirst("doctor_match") # {} THEN \E i \in PuFirst("doctor_match") : PuFound(i, "doctor_match")
        ELSE IF PuFirst("list_match") # {} THEN \E i \in PuFirst("list_match") : PuFound(i, "list_match")
        ELSE pu.out.status # "found"

\* a doctor's page stands before the profile page, and the profile page is returned
C16_Witness ==
    /\ PuReturnedWithResults
    /\ pu.results = <<RDoctor, RProfile>> /\ pu.args.doctor_name = "Dr. Bob Roe"
    /\ pu.out.url = RProfile.url /\ pu.out.match_reason = "profile_match"

\* the i-th result was appended to list_matches
PuInListMatches(i) == \E k \in 1..Len(pu.list_matches) : pu.list_matches[k] = pu.results[i]

\* C17: a search result is classified list_match exactly when its url matches a list
\* pattern and the business name is in its title or snippet while the name's leading
\* tokens are neither in the url slug nor in the title; a result with a list url whose
\* title and snippet do not hold the business name is never returned as a match.
C17_ListMatch ==
    PuReturnedWithResults =>
        \A i \in 1..Len(pu.results) :
            LET r == pu.results[i]
                b == pu.args.business_name
            IN /\ PuInListMatches(i) <=>
                      /\ IsListUrl(r.url) /\ NameInTitleOrSnippet(b, r)
                      /\ ~SlugInUrl(b, r.url) /\ ~name_in_text(b, r.title)
               /\ (IsListUrl(r.url) /\ ~NameInTitleOrSnippet(b, r)) =>
                      ~(pu.out.status = "found" /\ pu.out.url = r.url)

\* results exist and the loop put none of them in a list
PuUncertain ==
    /\ PuReturnedWithResults
    /\ pu.profile_matches = <<>> /\ pu.doctor_matches = <<>> /\ pu.list_matches = <<>>

\* C18 as stated: with results of which none is classified, discover_profile_url
\* goes on to fetch the top results and to the directory's internal search, and
\* returns not_found only after these have failed.
C18_FallbacksRun ==
    PuUncertain =>
        pu.out.match_reason \in {"validated", "direct_search", "no_validated_results"}

\* C18 amended: with results of which none is classified profile_match, doctor_match
\* or list_match, discover_profile_url returns not_found at once, with an empty url,
\* the match reason uncertain_results and the search results as candidates; it
\* fetches no result page and queries no internal-search template.
C18_UncertainNotFound ==
    PuUncertain =>
        /\ pu.out = Outcome("not_found", "", "", "uncertain_results", pu.results)
        /\ Len(pu.queries) \in {1, 2}

\* one unrelated result: not_found although a result was there to look at
C18_Witness ==
    /\ PuUncertain /\ pu.results = <<ROther>>
    /\ pu.out.status = "not_found" /\ pu.out.candidates = <<ROther>>

\* C19: the site-scoped search is issued at most twice; the second search is issued
\* only when the first returned no result, with the query of the first less its
\* location term; when it returns no result either the call returns not_found with
\* an empty url.
C19_RetryOnce ==
    /\ Len(pu.queries) <= 2
    /\ Len(pu.queries) = 2 =>
          /\ pu.first = <<>>
          /\ StartsWith(pu.queries[2], "site:" \o pu.directory_domain \o " ")
          /\ EndsWith(pu.queries[2], " \"" \o pu.search_name \o "\"")
          /\ Len(pu.queries[2]) = Len(pu.directory_domain) + Len(pu.search_name) + 8
          /\ pu.queries[1] = Join(Split(pu.queries[2] \o " " \o pu.location_term), " ")
    /\ (pu.pc = "returned" /\ Len(pu.queries) = 2 /\ pu.results = <<>>) =>
          (pu.out.status = "not_found" /\ pu.out.url = "")

\* both searches came back empty
C19_Witness ==
    /\ pu.pc = "returned" /\ Len(pu.queries) = 2 /\ pu.first = <<>> /\ pu.results = <<>>
    /\ pu.location_term = "Australia"
    /\ pu.queries = <<"site:yelp.com \"Ann Lee Dental\" Australia", "site:yelp.com \"Ann Lee Dental\"">>
    /\ pu.out.match_reason = "no_results"

(***************************************************************************)
(* discover_directories (execution/citation_audit_discovery.py): the       *)
(* request to the research API, the parsing of its answer and the call of  *)
(* clean_and_validate_directories, all inside one try/except.              *)
(***************************************************************************)
\* a parsed JSON value, as far as the function looks at it: its type, the entries
\* met when iterating it (a list's elements, a string's characters, a dict's keys),
\* and for a dict the value under 'directories' (key_type "absent" without the key)
Json(type, items, key_type, key_items) ==
    [type |-> type, items |-> items, key_type |-> key_type, key_items |-> key_items]
JsonList(items) == Json("list", items, "absent", <<>>)
JsonDict(keys, key_type, key_items) == Json("dict", keys, key_type, key_items)
JsonRaises == Json("JSONDecodeError", <<>>, "absent", <<>>)

\* the three backquotes of a markdown code fence (a TLA+ string holds no backquote)
Fence == "'''"
TextFenced == "'''json\n{\"directories\": [{\"name\": \"Yelp\", \"url\": \"https://yelp.com\"}]}\n'''"
TextBare == "{\"directories\": [{\"name\": \"Yelp\", \"url\": \"https://yelp.com\"}]}"
TextMixedList == "[{\"name\": \"Yelp\", \"url\": \"https://yelp.com\"}, \"yellowpages.com\"]"
TextNullName == "{\"directories\": [{\"name\": null, \"url\": \"https://yelp.com\"}]}"
TextNoName == "[{\"url\": \"https://yelp.com\"}, {\"name\": \"Yelp\", \"url\": \"https://yelp.com\"}]"
TextOtherKey == "{\"results\": []}"
TextNullList == "{\"directories\": null}"
TextNumber == "42"
TextString == "\"ok\""
TextProse == "Here are the directories: Yelp, BBB"

\* json.loads on the texts the model uses; any other text is not JSON
json_loads(text) ==
    IF text = TextBare THEN JsonDict(<<NotADict>>, "list", <<DirYelp>>)
    ELSE IF text = TextMixedList THEN JsonList(<<DirYelp, NotADict>>)
    ELSE IF text = TextNullName THEN JsonDict(<<NotADict>>, "list", <<DirNullName>>)
    ELSE IF text = TextNoName THEN JsonList(<<Directory("", "https://yelp.com"), DirYelp>>)
    ELSE IF text = TextOtherKey THEN JsonDict(<<NotADict>>, "absent", <<>>)
    ELSE IF text = TextNullList THEN JsonDict(<<NotADict>>, "null", <<>>)
    ELSE IF text = TextNumber THEN Json("number", <<>>, "absent", <<>>)
    ELSE IF text = TextString THEN Json("str", <<NotADict, NotADict>>, "absent", <<>>)
    ELSE JsonRaises

\* content.replace("```json", "").replace("```", "").strip()
StripFences(content) == Strip(ReplaceAll(ReplaceAll(content, Fence \o "json", ""), Fence, ""))

\* `directories`: the value under 'directories' of a dict ([] without the key), else
\* the parsed value itself; as [type, items]
Directories(parsed) ==
    IF parsed.type = "dict"
    THEN IF parsed.key_type = "absent" THEN [type |-> "list", items |-> <<>>]
         ELSE [type |-> parsed.key_type, items |-> parsed.key_items]
    ELSE [type |-> parsed.type, items |-> parsed.items]
\* len() of None or of a number raises TypeError
LenRaises(value) == value.type \in {"null", "number"}

\* the answer of the research API: the body is not JSON, or JSON of one of the shapes
\* "no choices" (no 'choices' key), "empty choices", "null content", "content"
ApiResponse(raised, status, shape, content) ==
    [raised |-> raised, status |-> status, shape |-> shape, content |-> content]
NoApiResponse == ApiResponse(FALSE, 0, "", "")

\* the exception `data['choices'][0]['message']['content']` and the replace raise
ShapeError(shape) ==
    IF shape = "not json" THEN "JSONDecodeError"
    ELSE IF shape = "no choices" THEN "KeyError"
    ELSE IF shape = "empty choices" THEN "IndexError"
    ELSE IF shape = "null content" THEN "AttributeError"
    ELSE ""

\* variant: only the errors of the request are caught
Caught_RequestOnly(error) == error = "ConnectionError"
\* `except Exception as e:` catches every exception the body raises
Caught(error) ==
    error \in {"ConnectionError", "JSONDecodeError", "KeyError", "IndexError",
               "AttributeError", "TypeError"}

DdIdle ==
    [pc |-> "idle", country |-> "", response |-> NoApiResponse, stripped |-> "",
     directories |-> <<>>, error |-> "", result |-> <<>>]
DdInit == dd = DdIdle

DdCountries == {"United States", "Australia", PyNone}
DdContents ==
    {TextFenced, TextBare, TextMixedList, TextNullName, TextNoName, TextOtherKey,
     TextNullList, TextNumber, TextString, TextProse, ""}
DdResponses ==
    {ApiResponse(TRUE, 0, "", ""), ApiResponse(FALSE, 401, "content", TextProse),
     ApiResponse(FALSE, 500, "not json", "")}
        \cup {ApiResponse(FALSE, 200, sh, "") :
                sh \in {"not json", "no choices", "empty choices", "null content"}}
        \cup {ApiResponse(FALSE, 200, "content", c) : c \in DdContents}

\* discover_directories(...) up to `requests.post`: the prompt is built from the
\* arguments (country.lower() raises on None), the request is sent
DdPost ==
    /\ dd.pc = "idle"
    /\ \E country \in DdCountries, response \in DdResponses :
        dd' = IF country = PyNone
              THEN [DdIdle EXCEPT !.pc = "except", !.country = country,
                                  !.error = "AttributeError"]
              ELSE IF response.raised
              THEN [DdIdle EXCEPT !.pc = "except", !.country = country,
                                  !.response = response, !.error = "ConnectionError"]
              ELSE [DdIdle EXCEPT !.pc = "parse", !.country = country,
                                  !.response = response]
    /\ UNCHANGED <<napVars, vuVars, dpVars, cvVars, dmVars, puVars, scVars, apiVars>>

\* from the status check to `len(directories)`
DdParse ==
    /\ dd.pc = "parse"
    /\ LET stripped == StripFences(dd.response.content)
           parsed == json_loads(stripped)
           value == Directories(parsed)
       IN dd' = IF dd.response.status # 200 THEN [dd EXCEPT !.pc = "returned"]
                ELSE IF ShapeError(dd.response.shape) # ""
                THEN [dd EXCEPT !.pc = "except", !.error = ShapeError(dd.response.shape)]
                ELSE IF parsed = JsonRaises
                THEN [dd EXCEPT !.pc = "except", !.stripped = stripped,
                                !.error = "JSONDecodeError"]
                ELSE IF LenRaises(value)
                THEN [dd EXCEPT !.pc = "except", !.stripped = stripped,
                                !.error = "TypeError"]
                ELSE [dd EXCEPT !.pc = "validate", !.stripped = stripped,
                                !.directories = value.items]
    /\ UNCHANGED <<napVars, vuVars, dpVars, cvVars, dmVars, puVars, scVars, apiVars>>

\* `clean_and_validate_directories(directories, country)` is entered
DdValidate ==
    /\ dd.pc = "validate" /\ cv.pc = "idle"
    /\ dd' = [dd EXCEPT !.pc = "validating"]
    /\ cv' = CvEntered(dd.directories, dd.country)
    /\ UNCHANGED <<napVars, vuVars, dpVars, dmVars, puVars, scVars, apiVars>>

\* clean_and_validate_directories returned, or raised on an entry
DdValidated ==
    /\ dd.pc = "validating" /\ cv.pc \in {"returned", "raised"}
    /\ dd' = IF cv.pc = "raised"
             THEN [dd EXCEPT !.pc = "except", !.error = "AttributeError"]
             ELSE [dd EXCEPT !.pc = "returned", !.result = cv.cleaned]
    /\ UNCHANGED <<napVars, vuVars, dpVars, cvVars, dmVars, puVars, scVars, apiVars>>

\* the except clause: `return []`; an exception it does not catch reaches the caller
DdExcept ==
    /\ dd.pc = "except"
    /\ dd' = IF Caught(dd.error) THEN [dd EXCEPT !.pc = "returned", !.result = <<>>]
             ELSE [dd EXCEPT !.pc = "raised"]
    /\ UNCHANGED <<napVars, vuVars, dpVars, cvVars, dmVars, puVars, scVars, apiVars>>

DdNext ==
    \/ DdPost \/ DdParse \/ DdValidate \/ DdValidated \/ DdExcept
    \/ CvFilter \/ CvValidate \/ CvCorrect \/ CvReturn

\* the message content did not parse as JSON
DdUnparseable == dd.response.shape = "content" /\ json_loads(StripFences(dd.response.content)) = JsonRaises
\* an entry of the parsed list is not an object with a string name and url
DdMalformedEntry == \E i \in 1..Len(dd.directories) : EntryRaises(dd.directories[i])

\* C14: discover_directories never raises to its caller, and returns an empty list
\* for a non-200 response, a body that is not JSON, message content that is not
\* parseable JSON, and a parsed list with a malformed entry.
C14_NeverRaises ==
    /\ dd.pc # "raised"
    /\ (/\ dd.pc = "returned"
        /\ \/ dd.response.raised
           \/ dd.response.status # 200
           \/ dd.response.shape # "content"
           \/ DdUnparseable
           \/ DdMalformedEntry) => dd.result = <<>>

\* a malformed entry follows an entry that was validated: the list built so far is
\* dropped and the caller gets []
C14_Witness ==
    /\ dd.pc = "returned" /\ dd.error = "AttributeError"
    /\ DdMalformedEntry /\ cv.cleaned # <<>> /\ dd.result = <<>>

(***************************************************************************)
(* The citation-audit endpoints of api/index.py.  Table citation_audits    *)
(* is the sequence `audits` of the rows of the one audited project; a row's *)
(* id is its position.  Every supabase call is one atomic step.            *)
(***************************************************************************)
\* a row as citation_audit_discover inserts it; the columns it leaves out are null
PendingRow(audit_id, directory_name, directory_website) ==
    [audit_id |-> audit_id, directory_name |-> directory_name,
     directory_website |-> directory_website, status |-> "pending", profile_url |-> PyNone,
     nap_name_ok |-> PyNone, nap_address_ok |-> PyNone, nap_phone_ok |-> PyNone,
     nap_website_ok |-> PyNone, nap_details |-> PyNone]

\* the row of table projects the handlers read
Project ==
    [project_name |-> "Ann Lee Dental", doctor_name |-> "", city |-> "Austin", state |-> "TX",
     country |-> "", street_address |-> "9 Elm St", zip_code |-> "78701",
     phone |-> "512-555-0100", website |-> PyNone]

\* jsonify(...): the status code and the fields of the body the callers read
Reply(code, message, count) == [code |-> code, message |-> message, count |-> count]
NoReply == Reply(0, "", 0)

\* `urlparse(url).netloc.lower().replace('www.', '')`
DcDomain(url) == ReplaceAll(Lower(Netloc(url)), "www.", "")
\* the names and the domains of the rows the project has
ExistingNames(rows) ==
    {Strip(Lower(rows[i].directory_name)) :
        i \in {j \in DOMAIN rows : ~Falsy(rows[j].directory_name)}}
ExistingDomains(rows) ==
    {DcDomain(rows[i].directory_website) :
        i \in {j \in DOMAIN rows : ~Falsy(rows[j].directory_website)}} \ {""}

RECURSIVE NewDirectories(_, _, _)
\* "Filter out directories that already exist (by name OR domain)"
NewDirectories(unique_directories, existing_names, existing_domains) ==
    IF unique_directories = <<>> THEN <<>>
    ELSE LET d == Head(unique_directories)
             name == Strip(d.name)
             domain == DcDomain(d.url)
             rest == Tail(unique_directories)
         IN IF Lower(name) \in existing_names
            THEN NewDirectories(rest, existing_names, existing_domains)
            ELSE IF ~Falsy(d.url) /\ domain \in existing_domains
            THEN NewDirectories(rest, existing_names, existing_domains)
            ELSE <<d>> \o NewDirectories(rest, existing_names \cup {Lower(name)},
                                         IF Falsy(d.url) THEN existing_domains
                                         ELSE existing_domains \cup {domain})

\* the clients that send a discover request for the project
DcClients == {"a", "b"}
\* `str(uuid.uuid4())[:8]`: a fresh id for each request
NewAuditId(client) == "audit-" \o client
\* a directory that passes the validation and whose domain the resolver does not search
DirGoogleMaps == Directory("Google Maps", "https://www.google.com/maps")
\* what discover_directories can hand back: nothing, or lists it validated
DcDiscovered == {<<>>, <<DirYelp, DirGoogleMaps>>, <<DirYelpBiz>>}

DcIdle ==
    [pc |-> "idle", audit_id |-> "", new_directories |-> <<>>, response |-> NoReply]
DcInit == audits = <<>> /\ dc = [c \in DcClients |-> DcIdle]

\* the request arrives: `select('audit_id').eq('project_id', ...).limit(1)` gives the
\* audit_id of some row of the project, a fresh id when the project has no row
DcBegin(c) ==
    /\ dc[c].pc = "idle"
    /\ \E id \in IF audits = <<>> THEN {NewAuditId(c)}
                 ELSE {audits[i].audit_id : i \in DOMAIN audits} :
        dc' = [dc EXCEPT ![c] = [DcIdle EXCEPT !.pc = "discover", !.audit_id = id]]
    /\ UNCHANGED <<audits, fu, vn, rf, rs, libVars>>

\* discover_directories answers; the rows of the project are read and the batch is
\* filtered against them
DcFilter(c) ==
    /\ dc[c].pc = "discover"
    /\ \E unique_directories \in DcDiscovered :
        LET new_directories == NewDirectories(unique_directories, ExistingNames(audits),
                                              ExistingDomains(audits))
        IN dc' = [dc EXCEPT ![c] =
                    IF unique_directories = <<>>
                    THEN [@ EXCEPT !.pc = "returned",
                                   !.response = Reply(500, "No directories discovered", 0)]
                    ELSE IF new_directories = <<>>
                    THEN [@ EXCEPT !.pc = "returned",
                                   !.response = Reply(200, "All directories already exist", 0)]
                    ELSE [@ EXCEPT !.pc = "insert", !.new_directories = new_directories]]
    /\ UNCHANGED <<audits, fu, vn, rf, rs, libVars>>

\* `supabase.table('citation_audits').insert(rows).execute()`
DcInsert(c) ==
    /\ dc[c].pc = "insert"
    /\ LET new == dc[c].new_directories
           rows == [i \in 1..Len(new) |-> PendingRow(dc[c].audit_id, new[i].name, new[i].url)]
       IN /\ audits' = audits \o rows
          /\ dc' = [dc EXCEPT ![c] = [@ EXCEPT !.pc = "returned",
                                                !.response = Reply(200, "Added", Len(rows))]]
    /\ UNCHANGED <<fu, vn, rf, rs, libVars>>

\* the steps of one client's request
DcRequest(c) == DcBegin(c) \/ DcFilter(c) \/ DcInsert(c)

DcNext == \E c \in DcClients : DcRequest(c)

\* C29: under every interleaving of discover requests for the project, no two rows of
\* the project have the same lower-cased directory name or the same directory domain,
\* and all rows of the project carry the same audit_id.
C29_NoDuplicateRows ==
    \A i, j \in DOMAIN audits :
        /\ audits[i].audit_id = audits[j].audit_id
        /\ i # j => /\ Lower(audits[i].directory_name) # Lower(audits[j].directory_name)
                    /\ DcDomain(audits[i].directory_website) # DcDomain(audits[j].directory_website)

(***************************************************************************)
(* What the handlers call: discover_profile_url as a function of what its  *)
(* searches return, and verify_nap on what the scrape returns.             *)
(***************************************************************************)
\* the class the categorising loop gives each result
Classes(results, business_name, doctor_name) ==
    [i \in DOMAIN results |-> Categorise(results[i], business_name, doctor_name)]
\* the results of one class, in the order of the results
Matching(results, classes, class) ==
    LET at == SelectSeq([i \in DOMAIN results |-> i], LAMBDA i : classes[i] = class)
    IN [k \in DOMAIN at |-> results[at[k]]]

\* the returns after the loop: the best match, or the uncertain results
ResolverBest(results, classes) ==
    LET best == BestMatch(Matching(results, classes, "profile_match"),
                          Matching(results, classes, "doctor_match"),
                          Matching(results, classes, "list_match"))
    IN IF best # NoOutcome THEN best ELSE Uncertain(results)
\* the element of a set of one element
TheOnly(S) == CHOOSE x \in S : TRUE

\* discover_profile_url as a whole: first and second are what the two searches
\* return (the second is only issued after an empty first one)
discover_profile_url(a, first, second) ==
    IF a.directory_domain \in skip_domains
    THEN Outcome("not_searchable", "", "", "gbp_not_searchable", <<>>)
    ELSE LET location == location_term(a.city, a.state, a.country)
             results == IF NeedsFallback(first, location) THEN second ELSE first
         IN IF results = <<>> THEN Outcome("not_found", "", "", "no_results", <<>>)
            ELSE TheOnly({ResolverBest(results, classes) :
                            classes \in {Classes(results, a.business_name, a.doctor_name)}})

\* the domain the handlers take from a row: the netloc of directory_website without
\* 'www.', or a guess from the name when the row has no website
DirectoryDomain(directory_name, directory_website) ==
    IF Falsy(directory_website)
    THEN ReplaceAll(Lower(directory_name), " ", "") \o ".com"
    ELSE IF UrlParseRaises(directory_website)
    THEN TakeUntil(ReplaceAll(ReplaceAll(ReplaceAll(directory_website, "https://", ""),
                                         "http://", ""), "www.", ""), {"/"})
    ELSE ReplaceAll(Netloc(directory_website), "www.", "")

\* `if not country: country = "United States"`
CountryOrDefault(country) == IF Falsy(country) THEN "United States" ELSE country

\* the arguments find-urls and refresh-directory pass for a row
ResolverArgs(row) ==
    PuArgs(row.directory_name, DirectoryDomain(row.directory_name, row.directory_website),
           Project.project_name, Project.doctor_name, Project.city, Project.state,
           CountryOrDefault(Project.country))

\* what a search of the resolver returns in these runs: nothing, the profile page,
\* a page that names neither the business nor a list
AuSearches == {<<>>, <<RProfile>>, <<ROther>>}

\* refresh is also run on a search with two results of which none names the business
RfSearches == AuSearches \cup {<<ROther, RListBare>>}

\* the directories a row of these runs can name
AuDirectories == UNION {{ds[k] : k \in DOMAIN ds} : ds \in DcDiscovered}

\* `result = discover_profile_url(...)` as the handlers call it, worked out once for
\* every row and every pair of search results of these runs
ResolverRuns ==
    {[directory_name |-> d.name, directory_website |-> d.url, first |-> first,
      second |-> second,
      result |-> discover_profile_url(ResolverArgs(PendingRow("", d.name, d.url)),
                                      first, second)] :
        d \in AuDirectories, first \in RfSearches, second \in RfSearches}

Resolve(row, first, second) ==
    TheOnly({run \in ResolverRuns :
                /\ run.directory_name = row.directory_name
                /\ run.directory_website = row.directory_website
                /\ run.first = first /\ run.second = second}).result
\* what scrape_content returns in these runs: the listing, a challenge page, another
\* business's page, nothing
AuContents == {PageListing, PageMoment, PageOther, NoContent} \cap ScrapedContents

\* table.update(data).eq('id', id): the columns of data replace those of the row
UpdateRow(rows, id, data) ==
    [rows EXCEPT ![id] = [col \in DOMAIN @ |-> IF col \in DOMAIN data THEN data[col] ELSE @[col]]]

(***************************************************************************)
(* POST /api/citation-audit/find-urls (citation_audit_find_urls).          *)
(***************************************************************************)
BatchLimit == 100

\* variant: a result that is not 'found' leaves the row as it is
FoundUpdate_KeepPending(result) ==
    LET best_url == IF result.candidates # <<>> THEN result.candidates[1].url ELSE ""
    IN IF result.status = "found" /\ best_url # ""
       THEN [profile_url |-> best_url, status |-> "found"]
       ELSE [status |-> "pending"]

\* "Only save URL if status is found": the columns find-urls writes for a result
FoundUpdate(result) ==
    LET best_url == IF result.candidates # <<>> THEN result.candidates[1].url ELSE ""
    IN IF result.status = "found" /\ best_url # ""
       THEN [profile_url |-> best_url, status |-> "found"]
       ELSE [status |-> "not_found"]

FuIdle ==
    [pc |-> "idle", batch |-> <<>>, i |-> 0, results |-> <<>>, processed_count |-> 0,
     found_count |-> 0, response |-> NoReply]
FuInit == fu = FuIdle

\* the ids of the rows with a status, in the order of the table
RowsWithStatus(status) ==
    SelectSeq([i \in DOMAIN audits |-> i], LAMBDA id : audits[id].status = status)

\* the request arrives: the pending rows of the project are fetched, oldest first
FuCall ==
    /\ fu.pc = "idle"
    /\ LET rows == Take(RowsWithStatus("pending"), BatchLimit)
       IN fu' = IF rows = <<>>
                THEN [FuIdle EXCEPT !.pc = "returned",
                          !.response = Reply(200, "No pending directories to process (all done or none found)", 0)]
                ELSE [FuIdle EXCEPT !.pc = "loop", !.batch = rows, !.i = 1]
    /\ UNCHANGED <<audits, dc, vn, rf, rs, libVars>>

\* one turn of `for row in rows:`: the resolver runs and the row is updated
FuStep ==
    /\ fu.pc = "loop" /\ fu.i <= Len(fu.batch)
    /\ \E first, second \in AuSearches :
       \E result \in {Resolve(audits[fu.batch[fu.i]], first, second)} :
        LET id == fu.batch[fu.i]
            update_data == FoundUpdate(result)
        IN /\ audits' = UpdateRow(audits, id, update_data)
           /\ fu' = [fu EXCEPT !.i = @ + 1, !.results = Append(@, result),
                               !.processed_count = @ + 1,
                               !.found_count = IF update_data.status = "found" THEN @ + 1 ELSE @]
    /\ UNCHANGED <<dc, vn, rf, rs, libVars>>

\* a call of the turn raises (the resolver, or the request to supabase): the handler's
\* `except Exception` answers 500 and the loop is left
FuRaise ==
    /\ fu.pc = "loop" /\ fu.i <= Len(fu.batch)
    /\ fu' = [fu EXCEPT !.pc = "returned", !.response = Reply(500, "error", 0)]
    /\ UNCHANGED <<audits, dc, vn, rf, rs, libVars>>

\* the loop is over: "success": True, "processed": processed_count
FuReturn ==
    /\ fu.pc = "loop" /\ fu.i > Len(fu.batch)
    /\ fu' = [fu EXCEPT !.pc = "returned",
                        !.response = Reply(200, "success", fu.processed_count)]
    /\ UNCHANGED <<audits, dc, vn, rf, rs, libVars>>

\* the response is sent; the next request can come
FuDone ==
    /\ fu.pc = "returned"
    /\ fu' = FuIdle
    /\ UNCHANGED <<audits, dc, vn, rf, rs, libVars>>

FuNext == FuCall \/ FuStep \/ FuRaise \/ FuReturn \/ FuDone

\* C25: a failure while one directory of the find-urls batch is resolved is recorded as
\* that directory's error state and does not stop the batch: when the request has
\* returned, no directory of its batch is still pending.
C25_FailureIsolated ==
    (fu.pc = "returned" /\ fu.batch # <<>>) =>
        /\ \A k \in DOMAIN fu.batch : audits[fu.batch[k]].status # "pending"
        /\ fu.response.code = 500 => audits[fu.batch[fu.i]].status = "error"

\* the rows the request has dealt with so far are 'found' or 'not_found'
FuMoved ==
    \A k \in DOMAIN fu.batch :
        k < fu.i => audits[fu.batch[k]].status \in {"found", "not_found"}
NoPendingRows == \A id \in DOMAIN audits : audits[id].status # "pending"
FuReportsNoPending ==
    fu.pc = "returned" /\ fu.response = Reply(200, "No pending directories to process (all done or none found)", 0)

VerifyLimit == 15

\* the profile urls the resolver can hand out in these runs
AuUrls == {RProfile.url, ROther.url, RListBare.url}

\* `[street_address, city, state, zip_code] if street_address else [city, state]`
AddressParts ==
    IF ~Falsy(Project.street_address)
    THEN <<Project.street_address, Project.city, Project.state, Project.zip_code>>
    ELSE <<Project.city, Project.state>>

\* refresh-directory: `proj.get('address', '') or f"{city}, {state}".strip(", ")`, split
\* on commas; a row of the projects table has no 'address'
RfAddressParts == SelectSeq(<<Strip(Project.city), Strip(Project.state)>>, LAMBDA part : part # "")

\* redo-single: `[street_address, city, zip_code]`
RsAddressParts == <<Project.street_address, Project.city, Project.zip_code>>

\* `verify_nap(profile_url, business_name, phone, address_parts, website_url)` as the
\* handlers call it, worked out once for every url and scraped content of these runs
NapRuns ==
    {[impl |-> impl, url |-> url, address_parts |-> address_parts, content |-> content,
      nap_data |-> verify_nap(impl, url, Project.project_name, Project.phone, address_parts,
                              Project.website, content)] :
        impl \in FuzzImpls, url \in AuUrls,
        address_parts \in {AddressParts, RfAddressParts, RsAddressParts},
        content \in AuContents}

VerifyRun(impl, url, address_parts, content) ==
    TheOnly({run \in NapRuns :
                /\ run.impl = impl /\ run.url = url
                /\ run.address_parts = address_parts /\ run.content = content}).nap_data

\* `nap_data.get(key, default)`
NapGet(nap_data, key, default) == IF nap_data[key] = Absent THEN default ELSE nap_data[key]

\* the columns verify-nap writes for a check
NapUpdate(nap_data) ==
    [status |-> "verified",
     nap_name_ok |-> NapGet(nap_data, "nap_name_ok", PyFalse),
     nap_address_ok |-> NapGet(nap_data, "nap_address_ok", PyFalse),
     nap_phone_ok |-> NapGet(nap_data, "nap_phone_ok", PyFalse),
     nap_website_ok |-> NapGet(nap_data, "nap_website_ok", PyNone),
     nap_details |-> nap_data.details]

\* `if not (name_ok and addr_ok and phone_ok)`
NapIssue(update_data) ==
    ~(update_data.nap_name_ok = PyTrue /\ update_data.nap_address_ok = PyTrue
        /\ update_data.nap_phone_ok = PyTrue)

\* the entry of `checks` for a row that was passed over or whose check raised
NotChecked == NapResult("", 0, "", <<Absent, Absent, Absent, Absent>>, NoLocals)

VnIdle ==
    [pc |-> "idle", rows |-> <<>>, i |-> 0, checks |-> <<>>, verified_count |-> 0,
     nap_issues_count |-> 0, response |-> NoReply]
VnInit == vn = VnIdle

\* the request arrives: the 'found' rows of the project are fetched as they are now
VnCall ==
    /\ vn.pc = "idle"
    /\ LET ids == RowsWithStatus("found")
           rows == [k \in DOMAIN ids |-> [id |-> ids[k], profile_url |-> audits[ids[k]].profile_url]]
       IN vn' = IF rows = <<>>
                THEN [VnIdle EXCEPT !.pc = "returned",
                          !.response = Reply(404, "No found listings to verify", 0)]
                ELSE [VnIdle EXCEPT !.pc = "loop", !.rows = Take(rows, VerifyLimit), !.i = 1]
    /\ UNCHANGED <<audits, dc, fu, rf, rs, libVars>>

\* one turn of `for row in rows[:15]:`: a row without url is passed over, else the
\* page is checked and the row is updated
VnStep ==
    /\ vn.pc = "loop" /\ vn.i <= Len(vn.rows)
    /\ IF Falsy(vn.rows[vn.i].profile_url)
       THEN /\ vn' = [vn EXCEPT !.i = @ + 1, !.checks = Append(@, NotChecked)]
            /\ UNCHANGED audits
       ELSE \E content \in AuContents :
            \E nap_data \in {VerifyRun(fuzzImpl, vn.rows[vn.i].profile_url, AddressParts, content)} :
            \E update_data \in {NapUpdate(nap_data)} :
                /\ audits' = UpdateRow(audits, vn.rows[vn.i].id, update_data)
                /\ vn' = [vn EXCEPT !.i = @ + 1, !.checks = Append(@, nap_data),
                             !.verified_count = @ + 1,
                             !.nap_issues_count = IF NapIssue(update_data) THEN @ + 1 ELSE @]
    /\ UNCHANGED <<dc, fu, rf, rs, libVars>>

\* the check or the update raises: `except Exception as e: ... continue`
VnStepFails ==
    /\ vn.pc = "loop" /\ vn.i <= Len(vn.rows)
    /\ ~Falsy(vn.rows[vn.i].profile_url)
    /\ vn' = [vn EXCEPT !.i = @ + 1, !.checks = Append(@, NotChecked)]
    /\ UNCHANGED <<audits, dc, fu, rf, rs, libVars>>

VnReturn ==
    /\ vn.pc = "loop" /\ vn.i > Len(vn.rows)
    /\ vn' = [vn EXCEPT !.pc = "returned",
                        !.response = Reply(200, "success", vn.verified_count)]
    /\ UNCHANGED <<audits, dc, fu, rf, rs, libVars>>

VnDone ==
    /\ vn.pc = "returned"
    /\ vn' = VnIdle
    /\ UNCHANGED <<audits, dc, fu, rf, rs, libVars>>

VnNext == VnCall \/ VnStep \/ VnStepFails \/ VnReturn \/ VnDone

\* what a stage found out about a row, as a status
FuOutcome(result) == IF FoundUpdate(result).status = "found" THEN "found" ELSE result.status
VnOutcome(check) ==
    IF check.is_blocked THEN "blocked" ELSE IF check.status = "error" THEN "error" ELSE "verified"

\* C22: the status a stage persists for a row is the outcome the stage reached: a
\* directory the resolver calls not_searchable is stored as 'not_searchable', and a
\* check that was blocked or failed is stored as 'blocked' or 'error', not 'verified'.
C22_StatusIsOutcome ==
    /\ \A k \in DOMAIN fu.results :
          audits[fu.batch[k]].status \in {"found", "not_found", "not_searchable"}
              => audits[fu.batch[k]].status = FuOutcome(fu.results[k])
    /\ \A k \in DOMAIN vn.checks :
          (vn.checks[k] # NotChecked
              /\ audits[vn.rows[k].id].status \in {"verified", "blocked", "error"})
              => audits[vn.rows[k].id].status = VnOutcome(vn.checks[k])

(***************************************************************************)
(* POST /api/citation-audit/refresh-directory                              *)
(* (citation_audit_refresh_directory).                                     *)
(***************************************************************************)
StrongConfidence == 75
\* the directories whose row a refresh is asked for in these runs: one the resolver
\* searches and one it does not
RfDirectories == {DirYelp.name, DirGoogleMaps.name}

\* what the handler answers: the status code and the result fields of the body
RfReply(code, status, url, flags, nap_details) ==
    [code |-> code, status |-> status, url |-> url, nap_name_ok |-> flags[1],
     nap_address_ok |-> flags[2], nap_phone_ok |-> flags[3], nap_website_ok |-> flags[4],
     nap_details |-> nap_details]
NoRfReply == RfReply(0, "", "", <<Absent, Absent, Absent, Absent>>, "")

\* variant: only the candidates of a 'found' result are verified
RfCandidates_FoundOnly(result) == IF result.status = "found" THEN result.candidates ELSE <<>>

\* `candidates = result.get('candidates', [])`
RfCandidates(result) == result.candidates

\* the columns written when there is no candidate
NoCandidateUpdate ==
    [profile_url |-> "", status |-> "not_found", nap_name_ok |-> PyNone,
     nap_address_ok |-> PyNone, nap_phone_ok |-> PyNone, nap_website_ok |-> PyNone]

\* "Phone match is gold", else the name with a confidence above 75
StrongMatch(nap_res) ==
    \/ nap_res.nap_phone_ok = PyTrue
    \/ nap_res.nap_name_ok = PyTrue /\ nap_res.confidence > StrongConfidence

\* the columns written for the candidate that was kept
RefreshUpdate(final_url, final_nap) ==
    [profile_url |-> final_url, status |-> "verified",
     nap_name_ok |-> NapGet(final_nap, "nap_name_ok", PyNone),
     nap_address_ok |-> NapGet(final_nap, "nap_address_ok", PyNone),
     nap_phone_ok |-> NapGet(final_nap, "nap_phone_ok", PyNone),
     nap_website_ok |-> NapGet(final_nap, "nap_website_ok", PyNone),
     nap_details |-> final_nap.details]

RfIdle ==
    [pc |-> "idle", id |-> 0, audit |-> PendingRow("", "", ""), result |-> NoOutcome,
     candidates |-> <<>>, i |-> 0, best_candidate |-> Result("", "", ""),
     best_nap_result |-> NotChecked, response |-> NoRfReply]
RfInit == rf = RfIdle

\* the request arrives and the row is read: 404 when there is none
RfCall ==
    /\ rf.pc = "idle"
    /\ \E id \in 1..(Len(audits) + 1) :
          /\ id \in DOMAIN audits => audits[id].directory_name \in RfDirectories
          /\ rf' = IF id \in DOMAIN audits
                   THEN [RfIdle EXCEPT !.pc = "resolve", !.id = id, !.audit = audits[id]]
                   ELSE [RfIdle EXCEPT !.pc = "returned", !.id = id,
                             !.response = RfReply(404, "", "", <<Absent, Absent, Absent, Absent>>, "")]
    /\ UNCHANGED <<audits, dc, fu, vn, rs, libVars>>

\* the resolver runs; without a candidate the row is set to not_found and the handler
\* answers, with candidates the verification starts
RfResolve ==
    /\ rf.pc = "resolve"
    /\ \E first, second \in RfSearches :
       \E result \in {Resolve(rf.audit, first, second)} :
       \E candidates \in {RfCandidates(result)} :
          IF candidates = <<>>
          THEN /\ audits' = UpdateRow(audits, rf.id, NoCandidateUpdate)
               /\ rf' = [rf EXCEPT !.pc = "returned", !.result = result,
                            !.response = RfReply(200, "not_found", "",
                                                 <<Absent, Absent, Absent, Absent>>,
                                                 "No search candidates found.")]
          ELSE /\ rf' = [rf EXCEPT !.pc = "verify", !.result = result,
                            !.candidates = candidates, !.i = 1]
               /\ UNCHANGED audits
    /\ UNCHANGED <<dc, fu, vn, rs, libVars>>

\* one turn of `for cand in candidates:`: a strong match ends the loop, the first
\* candidate is kept as the fallback
RfVerify ==
    /\ rf.pc = "verify" /\ rf.i <= Len(rf.candidates)
    /\ \E content \in AuContents :
       \E nap_res \in {VerifyRun(fuzzImpl, rf.candidates[rf.i].url, RfAddressParts, content)} :
          rf' = IF StrongMatch(nap_res)
                THEN [rf EXCEPT !.pc = "save", !.best_candidate = rf.candidates[rf.i],
                          !.best_nap_result = nap_res]
                ELSE [rf EXCEPT !.i = @ + 1,
                          !.pc = IF rf.i = Len(rf.candidates) THEN "save" ELSE "verify",
                          !.best_candidate = IF rf.i = 1 THEN rf.candidates[1] ELSE @,
                          !.best_nap_result = IF rf.i = 1 THEN nap_res ELSE @]
    /\ UNCHANGED <<audits, dc, fu, vn, rs, libVars>>

\* "Save to DB": the kept candidate is written and the handler answers
RfSave ==
    /\ rf.pc = "save"
    /\ \E nap_update \in {RefreshUpdate(rf.best_candidate.url, rf.best_nap_result)} :
          /\ audits' = UpdateRow(audits, rf.id, nap_update)
          /\ rf' = [rf EXCEPT !.pc = "returned",
                       !.response = RfReply(200, "verified", nap_update.profile_url,
                                            <<nap_update.nap_name_ok, nap_update.nap_address_ok,
                                              nap_update.nap_phone_ok, nap_update.nap_website_ok>>,
                                            nap_update.nap_details)]
    /\ UNCHANGED <<dc, fu, vn, rs, libVars>>

\* a call raises: the handler's `except Exception` answers 500
RfRaise ==
    /\ rf.pc \in {"resolve", "verify", "save"}
    /\ rf' = [rf EXCEPT !.pc = "returned",
                 !.response = RfReply(500, "", "", <<Absent, Absent, Absent, Absent>>, "")]
    /\ UNCHANGED <<audits, dc, fu, vn, rs, libVars>>

RfDone ==
    /\ rf.pc = "returned"
    /\ rf' = RfIdle
    /\ UNCHANGED <<audits, dc, fu, vn, rs, libVars>>

RfNext == RfCall \/ RfResolve \/ RfVerify \/ RfSave \/ RfRaise \/ RfDone

\* the refresh has answered with its result
RfAnswered == rf.pc = "returned" /\ rf.response.code = 200

\* C23: after a refresh of one directory has completed, every result field of its row
\* (status, profile url, the four NAP flags, the details text) holds the value of the
\* new run, whichever outcome the run had (a run without a candidate has no details
\* to store: the text of its answer or an empty column).
C23_AllFieldsReplaced ==
    RfAnswered =>
        /\ audits[rf.id].status = rf.response.status
        /\ audits[rf.id].profile_url = rf.response.url
        /\ audits[rf.id].nap_name_ok = NapGet(rf.response, "nap_name_ok", PyNone)
        /\ audits[rf.id].nap_address_ok = NapGet(rf.response, "nap_address_ok", PyNone)
        /\ audits[rf.id].nap_phone_ok = NapGet(rf.response, "nap_phone_ok", PyNone)
        /\ audits[rf.id].nap_website_ok = NapGet(rf.response, "nap_website_ok", PyNone)
        /\ \/ audits[rf.id].nap_details = rf.response.nap_details
           \/ rf.response.status = "not_found" /\ Falsy(audits[rf.id].nap_details)

\* C30 as claimed: a url with 'verified' is recorded only for a 'found' result, and a
\* not_found result leaves the row not_found with an empty url
C30_VerifiedOnlyWhenFound ==
    RfAnswered =>
        /\ (audits[rf.id].status = "verified" /\ ~Falsy(audits[rf.id].profile_url))
              => rf.result.status = "found"
        /\ rf.result.status = "not_found"
              => (audits[rf.id].status = "not_found" /\ audits[rf.id].profile_url = "")

\* C30: refresh-directory records a non-empty profile url with status 'verified' exactly
\* when the resolver handed back at least one candidate, and the url is one of the
\* candidates; a result without candidates leaves the row not_found with an empty url.
C30_VerifiedWhenCandidates ==
    RfAnswered =>
        IF rf.result.candidates # <<>>
        THEN /\ audits[rf.id].status = "verified"
             /\ \E k \in DOMAIN rf.result.candidates :
                   audits[rf.id].profile_url = rf.result.candidates[k].url
        ELSE audits[rf.id].status = "not_found" /\ audits[rf.id].profile_url = ""

\* an uncertain result was verified and its first candidate recorded
C30_Witness ==
    /\ RfAnswered /\ rf.result.match_reason = "uncertain_results"
    /\ audits[rf.id].status = "verified"
    /\ audits[rf.id].profile_url = rf.result.candidates[1].url

(***************************************************************************)
(* POST /api/citation-audit/redo-single (citation_audit_redo_single).      *)
(***************************************************************************)
\* `def discover_profile_url(directory_name, directory_domain, business_name,
\* doctor_name, city, state='', country='')`
ResolverParameters ==
    {"directory_name", "directory_domain", "business_name", "doctor_name", "city", "state",
     "country"}
ResolverRequired == ResolverParameters \ {"state", "country"}
\* the keywords of the call in redo-single
RsKeywords == {"directory_name", "directory_domain", "business_name", "city", "state", "alt_name"}

\* a call by keywords binds when every keyword is a parameter and every parameter
\* without a default is given; Python raises TypeError otherwise
CallBinds(keywords, parameters, required) ==
    keywords \subseteq parameters /\ required \subseteq keywords

RsIdle ==
    [pc |-> "idle", id |-> 0, row |-> PendingRow("", "", ""), step2 |-> FALSE,
     profile_url |-> "", response |-> NoReply]
RsInit == rs = RsIdle

\* `if not profile_url or current_status == 'not_found'`
NeedsStep2(row) == Falsy(row.profile_url) \/ row.status = "not_found"

\* the request arrives and the row is read: 404 when there is none
RsCall ==
    /\ rs.pc = "idle"
    /\ \E id \in 1..(Len(audits) + 1) :
          /\ id \in DOMAIN audits => audits[id].directory_name \in RfDirectories
          /\ rs' = IF id \notin DOMAIN audits
                   THEN [RsIdle EXCEPT !.pc = "returned", !.id = id,
                             !.response = Reply(404, "Row not found", 0)]
                   ELSE [RsIdle EXCEPT !.pc = IF NeedsStep2(audits[id]) THEN "find" ELSE "verify",
                             !.id = id, !.row = audits[id], !.step2 = NeedsStep2(audits[id]),
                             !.profile_url = audits[id].profile_url]
    /\ UNCHANGED <<audits, dc, fu, vn, rf, libVars>>

\* "Step 2": the resolver is called; a call that does not bind raises, which the
\* handler's `except Exception` answers with 500
RsFind ==
    /\ rs.pc = "find"
    /\ IF ~CallBinds(RsKeywords, ResolverParameters, ResolverRequired)
       THEN /\ rs' = [rs EXCEPT !.pc = "returned", !.response = Reply(500, "error", 0)]
            /\ UNCHANGED audits
       ELSE \E first, second \in AuSearches :
            \E result \in {Resolve(rs.row, first, second)} :
               IF result.status = "found" /\ result.candidates # <<>>
               THEN /\ audits' = UpdateRow(audits, rs.id,
                                           [profile_url |-> result.candidates[1].url,
                                            status |-> "found"])
                    /\ rs' = [rs EXCEPT !.pc = "verify",
                                 !.profile_url = result.candidates[1].url]
               ELSE /\ audits' = UpdateRow(audits, rs.id, [status |-> "not_found"])
                    /\ rs' = [rs EXCEPT !.pc = "returned",
                                 !.response = IF result.status = "found"
                                              THEN Reply(500, "Unexpected state", 0)
                                              ELSE Reply(200, "Profile URL not found", 0)]
    /\ UNCHANGED <<dc, fu, vn, rf, libVars>>

\* "Step 3": the page is checked and the row is updated
RsVerify ==
    /\ rs.pc = "verify"
    /\ \E content \in AuContents :
       \E nap_data \in {VerifyRun(fuzzImpl, rs.profile_url, RsAddressParts, content)} :
          /\ audits' = UpdateRow(audits, rs.id, NapUpdate(nap_data))
          /\ rs' = [rs EXCEPT !.pc = "returned",
                       !.response = Reply(200, "Verification complete", 0)]
    /\ UNCHANGED <<dc, fu, vn, rf, libVars>>

\* the check or the update raises
RsRaise ==
    /\ rs.pc = "verify"
    /\ rs' = [rs EXCEPT !.pc = "returned", !.response = Reply(500, "error", 0)]
    /\ UNCHANGED <<audits, dc, fu, vn, rf, libVars>>

RsDone ==
    /\ rs.pc = "returned"
    /\ rs' = RsIdle
    /\ UNCHANGED <<audits, dc, fu, vn, rf, libVars>>

RsNext == RsCall \/ RsFind \/ RsVerify \/ RsRaise \/ RsDone

\* C27: redo-single on a row without profile url, or with status not_found, runs the
\* discovery and then the verification and leaves the row verified or not_found; it
\* does not answer with an error and leave the row as it was.
C27_RedoDiscovers ==
    (rs.pc = "returned" /\ rs.step2) =>
        /\ audits[rs.id].status \in {"verified", "not_found"}
        /\ ~(rs.response.code = 500 /\ audits[rs.id] = rs.row)

Init ==
    /\ NapInit /\ VuInit /\ DpInit /\ CvInit /\ DmInit /\ DdInit /\ PuInit /\ ScInit
    /\ DcInit /\ FuInit /\ VnInit /\ RfInit /\ RsInit

SpecNap == Init /\ [][NapNext]_vars
SpecUrl == Init /\ [][VuNext]_vars
SpecProfile == Init /\ [][DpNext]_vars
SpecDirectories == Init /\ [][CvNext]_vars
SpecDomain == Init /\ [][DmNext]_vars
SpecDiscover == Init /\ [][DdNext]_vars
SpecResolve == Init /\ [][PuNext]_vars
SpecScrape == Init /\ [][ScNext]_vars
SpecRace == Init /\ [][DcNext]_vars
SpecFindUrls == Init /\ [][DcNext \/ FuNext]_vars
\* one discover request fills the table, refresh requests follow
SpecRefresh == Init /\ [][DcRequest("a") \/ RfNext]_vars
SpecRedo == Init /\ [][DcRequest("a") \/ FuNext \/ RsNext]_vars
SpecPipeline == Init /\ [][DcNext \/ FuNext \/ VnNext]_vars
\* requests keep coming, and a turn of the loop does not fail for ever
FairFindUrls == SpecFindUrls /\ WF_vars(FuNext) /\ SF_vars(FuStep)

====
